---- MODULE Spec2Model ----
(***************************************************************************)
(* Model of the search-businesses edge function                            *)
(* (supabase/functions/search-businesses/index.ts): the request handler    *)
(* `serve`, performStandardSearch, performGridSearch and                   *)
(* performGridTileTextSearch, with the upstream places / geocoding /       *)
(* details endpoints as a nondeterministic environment.                    *)
(*                                                                         *)
(* One upstream call (fetch + json) is one step: every `await fetch` is a  *)
(* suspension point of the handler, and the code between two awaits runs   *)
(* to completion (single-threaded event loop).                             *)
(***************************************************************************)
EXTENDS Integers, Sequences, FiniteSets, TLC

(***************************************************************************)
(* Bounds of the model (not program constants).                            *)
(***************************************************************************)
\* largest result budget a request asks for
MaxBudget == 62
\* length of a full page of upstream results
MaxPageLen == 20
\* the upstream hands out a next-page token for at most this many pages of
\* one un-biased text search
MaxStdPages == 4
\* number of answers to tile searches that may deviate from the regular ones
MaxFaults == 1
\* length of a regular page of tile results of the upstream whose answers
\* may deviate
MidPageLen == 8
\* significant bits of the floating-point numbers (a double has 53)
Precision == 11
\* largest number of places whose detail lookups resolve one by one
MaxLookups == 3
\* number of page requests after which a search that has not ended is left
\* alone
MaxRequests == 4
\* length of the longest query whose location phrase and search term are
\* derived
MaxQueryLen == 6

(***************************************************************************)
(* Program constants.                                                      *)
(***************************************************************************)
\* const { query, maxResults = 60, searchIntensity = 'low' } = await req.json()
DefaultMaxResults == 60
\* if (maxResults <= 60)
GridThreshold == 60
\* Math.ceil(results.length / 20)
ResultsPerCall == 20

(***************************************************************************)
(* JavaScript helpers.                                                     *)
(***************************************************************************)
Min(a, b) == IF a <= b THEN a ELSE b

Max(a, b) == IF a >= b THEN a ELSE b

\* Array.prototype.slice(0, n) for n >= 0
Slice(s, n) == SubSeq(s, 1, Min(n, Len(s)))

\* Math.ceil(a / b) for a >= 0, b > 0
CeilDiv(a, b) == (a + b - 1) \div b

\* an optional value: <<>> is undefined, <<x>> is x
None == <<>>

Some(x) == <<x>>

\* { ...a, ...b }
Spread(a, b) ==
  [f \in (DOMAIN a) \cup (DOMAIN b) |-> IF f \in DOMAIN b THEN b[f] ELSE a[f]]

\* the values a sequence holds
Range(s) == {s[i] : i \in 1..Len(s)}

(***************************************************************************)
(* Data.  A PlaceResult is its place_id plus the rest of its payload; the  *)
(* value `name` tells apart two instances of the same place returned by    *)
(* different upstream responses.  The code never changes a PlaceResult, so *)
(* the state carries these two of its properties and Summary gives all of  *)
(* them: the optional ones are present or absent according to the          *)
(* identifier.                                                             *)
(***************************************************************************)
Place(id, name) == [place_id |-> id, name |-> name]

\* the PlaceResult `place` with all its properties
Summary(place) ==
  LET id == place.place_id
  IN
  [place_id |-> id,
   name |-> place.name,
   formatted_address |-> 2000 + id,
   formatted_phone_number |-> IF id % 2 = 0 THEN Some(3000 + id) ELSE None,
   rating |-> IF id % 3 = 0 THEN None ELSE Some(1 + (id % 5)),
   user_ratings_total |-> IF id % 3 = 0 THEN None ELSE Some(id),
   business_status |-> IF id % 4 = 0 THEN None ELSE Some("OPERATIONAL"),
   website |-> IF id % 4 = 1 THEN Some(4000 + id) ELSE None,
   price_level |-> IF id % 2 = 1 THEN Some(id % 5) ELSE None]

\* queries, as sequences of characters
QPizza == <<"p", "i", "z", "z", "a">>

QCafes == <<"c", "a", "f", "e", "s", " ", "i", "n", " ", "S", "p", "r">>

Queries == {QPizza, QCafes}

\* the JSON bodies of the requests: a query or none, a budget or none, and a
\* search intensity or none; the budgets above the threshold come with one
\* query each, and an explicit search intensity with one query and one budget
Bodies ==
  {b \in [query : {None, Some(<<>>)} \cup {Some(q) : q \in Queries},
          maxResults : {None} \cup
            {Some(n) : n \in {0, 1, 30, GridThreshold, GridThreshold + 1, MaxBudget}},
          searchIntensity : {None, Some("low"), Some("medium"), Some("high"), Some("max")}] :
     /\ b.maxResults = Some(GridThreshold + 1) => b.query # Some(QPizza)
     /\ b.maxResults = Some(MaxBudget) => b.query # Some(QCafes)
     /\ b.searchIntensity \in {Some("low"), Some("max")} =>
          b.query = Some(QCafes) /\ b.maxResults = Some(30)
     /\ b.searchIntensity \in {Some("medium"), Some("high")} =>
          b.query = Some(QCafes) /\ b.maxResults = Some(GridThreshold + 1)}

VARIABLES
  pc,            \* position of the request handler
  body,          \* the parsed JSON body of the request
  googleApiKey,  \* Deno.env.get('GOOGLE_PLACES_API_KEY'), optional
  resp,          \* the Response the handler returned
  sent,          \* upstream requests sent so far, per endpoint
  std,           \* the running performStandardSearch invocation
  stdCalls,      \* the performStandardSearch invocations of this request
  srv,           \* serve's locals after the search: allResults, apiCallsCount, searchMeta
  grid,          \* the locals of the performGridSearch invocation
  batch,         \* the tile searches of the current batch, in the order of the batch
  completed,     \* the positions in the batch of its finished tile searches, in order of completion
  upstream,      \* the places database behind the tile searches
  tileRaw,       \* the raw results each tile search has collected, by tile in grid order
  tileCalls,     \* the fetchWithRetry calls each tile search has made, by tile in grid order
  thrown,        \* the errors thrown inside performGridSearch and performStandardSearch
  gridReturn     \* the value performGridSearch returned, optional

vars == <<pc, body, googleApiKey, resp, sent, std, stdCalls, srv, grid, batch, completed,
          upstream, tileRaw, tileCalls, thrown, gridReturn>>

(***************************************************************************)
(* serve: destructuring of the body with its defaults.                     *)
(***************************************************************************)
query == IF body.query = None THEN <<>> ELSE body.query[1]

maxResults == IF body.maxResults = None THEN DefaultMaxResults ELSE body.maxResults[1]

searchIntensity == IF body.searchIntensity = None THEN "low" ELSE body.searchIntensity[1]

\* !query : undefined and the empty string are falsy
QueryMissing == body.query = None \/ body.query[1] = <<>>

\* (a check that takes the empty string for a credential)
KeyUndefined == googleApiKey = None

\* !googleApiKey
KeyMissing == googleApiKey = None \/ googleApiKey[1] = ""

\* (a threshold that sends a budget of exactly 60 to the grid search)
UseStandardSearchBelow == maxResults < GridThreshold

\* if (maxResults <= 60)
UseStandardSearch == maxResults <= GridThreshold

NoResp == [status |-> 0]

NoStd == [active |-> FALSE]

NoSrv == [allResults |-> <<>>]

NoGrid == [active |-> FALSE]

\* the upstreams of the tile searches of a request: the length of a regular
\* page of tile results, and how many answers may deviate from the regular ones
Upstreams ==
  {[pageLen |-> 2, faults |-> 0], [pageLen |-> MidPageLen, faults |-> MaxFaults],
   [pageLen |-> MaxPageLen, faults |-> 0]}

\* no tile search has been issued yet
NoUpstream == [pageLen |-> 0, faults |-> 0]

\* nothing has run yet
InitLocals ==
  /\ resp = NoResp
  /\ sent = [geocode |-> 0, search |-> 0, tile |-> 0, details |-> 0]
  /\ std = NoStd
  /\ stdCalls = <<>>
  /\ srv = NoSrv
  /\ grid = NoGrid
  /\ batch = <<>>
  /\ completed = <<>>
  /\ upstream = NoUpstream
  /\ tileRaw = <<>>
  /\ tileCalls = <<>>
  /\ thrown = <<>>
  /\ gridReturn = None

Init ==
  /\ pc = "request"
  /\ body \in Bodies
  /\ googleApiKey \in {None, Some(""), Some("key")}
  /\ InitLocals

(***************************************************************************)
(* Responses of serve.                                                     *)
(***************************************************************************)
ErrorResponse(status, error) == [status |-> status, error |-> error]

ResultsResponse(results, apiCallsUsed, meta) ==
  [status |-> 200, results |-> results, apiCallsUsed |-> apiCallsUsed, meta |-> meta]

\* the catch block of serve
ServeCatch ==
  /\ pc' = "done"
  /\ resp' = ErrorResponse(500, "Internal server error")
  /\ srv' = srv

\* serve after the search returned allResults, apiCallsCount, searchMeta
ServeSearchDone(allResults, apiCallsCount, searchMeta) ==
  IF Len(allResults) = 0
    THEN /\ pc' = "done"
         /\ resp' = ResultsResponse(<<>>, apiCallsCount, searchMeta)
         /\ srv' = srv
    ELSE /\ pc' = "details"
         /\ resp' = resp
         /\ srv' = [allResults |-> allResults, apiCallsCount |-> apiCallsCount,
                    searchMeta |-> searchMeta,
                    outcomes |-> [n \in 1..Len(allResults) |-> "pending"],
                    order |-> <<>>]

(***************************************************************************)
(* performStandardSearch.                                                  *)
(***************************************************************************)
\* the locals of performStandardSearch(query, googleApiKey, initialApiCalls, maxResults)
\* at entry; `caller` is the call site, `error` the error the caller caught before
StdEntry(caller, q, budget, error) ==
  [active |-> TRUE, caller |-> caller, query |-> q, maxResults |-> budget,
   error |-> error, allResults |-> <<>>, nextPageToken |-> FALSE, pageCount |-> 0,
   requests |-> 0]

\* one page of an un-biased text search: n places not returned before
StdPage(pageNo, n) == [i \in 1..n |-> Place(pageNo * MaxPageLen + i, 0)]

\* what the upstream answers to the request for page pageNo (0-based)
StdResponses(pageNo) ==
  [kind : {"data"}, status : {"OK"}, results : {StdPage(pageNo, n) : n \in {0, 1, MaxPageLen}},
   next_page_token : {b \in BOOLEAN : b => pageNo + 1 < MaxStdPages}]
  \cup [kind : {"data"}, status : {"ZERO_RESULTS", "REQUEST_DENIED"}, results : {<<>>},
        next_page_token : {FALSE}]
  \cup {[kind |-> "throw"]}

\* String(error) of the errors the code sees
FetchError == <<"TypeError: fetch failed">>

\* new Error(`Google Places API error: ${searchData.status}`)
PlacesError(status) == <<"Error: Google Places API error: ", status>>

\* the meta record of a search that ran no tile
StdMeta(results) ==
  [tilesCreated |-> 0, rawResults |-> Len(results), uniqueResults |-> Len(results),
   tileLogs |-> <<>>]

\* record what the running performStandardSearch invocation ended with, and
\* the page requests it has issued, the one just answered included
StdLog(outcome, results) ==
  [stdCalls EXCEPT ![Len(stdCalls)] = [@ EXCEPT !.outcome = outcome, !.results = results,
                                                !.requests = std.requests + 1]]

\* call performStandardSearch(q, googleApiKey, apiCalls, budget) from `caller`
StdCall(log, caller, q, budget, error) ==
  /\ std' = StdEntry(caller, q, budget, error)
  /\ stdCalls' = Append(log, [caller |-> caller, query |-> q, outcome |-> "running",
                              results |-> <<>>, requests |-> 0])
  /\ pc' = "std"

(***************************************************************************)
(* performGridSearch: location phrase and search term of the query.        *)
(* Strings are sequences of characters; a regular expression is modelled   *)
(* by the match the backtracking matcher finds (leftmost start, greedy     *)
(* quantifiers, giving back one character where the next item needs it).   *)
(***************************************************************************)
\* \s
IsSpace(c) == c \in {" ", "\t"}

\* [^,]
NotComma(c) == c # ","

\* the /i flag: the lower-case form of a character
Lower(c) ==
  CASE c = "I" -> "i" [] c = "N" -> "n" [] c = "S" -> "s" [] c = "A" -> "a"
    [] OTHER -> c

\* \s+ and \s*: last index of the longest run of white space that starts at i
\* (i - 1 when there is none)
SpaceRunEnd(q, i) ==
  LET ends == {j \in (i - 1)..Len(q) : \A k \in i..j : IsSpace(q[k])}
  IN CHOOSE j \in ends : \A k \in ends : k <= j

\* [^,]+: last index of the longest run of characters other than a comma that
\* starts at i (i - 1 when there is none)
NotCommaRunEnd(q, i) ==
  LET ends == {j \in (i - 1)..Len(q) : \A k \in i..j : NotComma(q[k])}
  IN CHOOSE j \in ends : \A k \in ends : k <= j

\* ([^,]+) after a greedy run of white space that starts at i and may be
\* required to keep `least` characters: the group starts after the run, or on
\* its last character when no other character is left for it; 0 when the
\* group cannot match
GroupStart(q, i, least) ==
  LET e == SpaceRunEnd(q, i)
  IN IF e + 1 <= Len(q) /\ q[e + 1] # "," THEN e + 1
     ELSE IF e - i + 1 > least THEN e
     ELSE 0

NoMatch == [matched |-> FALSE]

\* (?:,\s*([^,]+))? at position c: the end of the match and the second group
TailGroup(q, c) ==
  LET g2 == IF c <= Len(q) /\ q[c] = "," THEN GroupStart(q, c + 1, 0) ELSE 0
  IN IF g2 = 0 THEN [last |-> c - 1, g2 |-> None]
     ELSE [last |-> NotCommaRunEnd(q, g2),
           g2 |-> Some(SubSeq(q, g2, NotCommaRunEnd(q, g2)))]

\* /in\s+([^,]+)(?:,\s*([^,]+))?/i tried at position p
InMatchAt(q, p) ==
  IF ~(p + 2 <= Len(q) /\ Lower(q[p]) = "i" /\ Lower(q[p + 1]) = "n" /\ IsSpace(q[p + 2]))
    THEN NoMatch
  ELSE LET g1 == GroupStart(q, p + 2, 1)
       IN IF g1 = 0 THEN NoMatch
          ELSE LET g1end == NotCommaRunEnd(q, g1)
                   tail == TailGroup(q, g1end + 1)
               IN [matched |-> TRUE, first |-> p, last |-> tail.last,
                   g1 |-> SubSeq(q, g1, g1end), g2 |-> tail.g2]

\* /([^,]+),\s*([^,]+)/ tried at position p
CommaMatchAt(q, p) ==
  IF ~(p <= Len(q) /\ q[p] # ",") THEN NoMatch
  ELSE LET c == NotCommaRunEnd(q, p) + 1
           tail == TailGroup(q, c)
       IN IF tail.g2 = None THEN NoMatch
          ELSE [matched |-> TRUE, first |-> p, last |-> tail.last,
                g1 |-> SubSeq(q, p, c - 1), g2 |-> tail.g2]

\* q.match(/in\s+([^,]+)(?:,\s*([^,]+))?/i): the match at the leftmost position
InMatch(q) ==
  LET starts == {p \in 1..Len(q) : InMatchAt(q, p).matched}
  IN IF starts = {} THEN NoMatch
     ELSE InMatchAt(q, CHOOSE p \in starts : \A r \in starts : p <= r)

\* q.match(/([^,]+),\s*([^,]+)/): the match at the leftmost position
CommaMatch(q) ==
  LET starts == {p \in 1..Len(q) : CommaMatchAt(q, p).matched}
  IN IF starts = {} THEN NoMatch
     ELSE CommaMatchAt(q, CHOOSE p \in starts : \A r \in starts : p <= r)

\* `${a}, ${b}`
CommaJoin(a, b) == a \o <<",", " ">> \o b

\* number of elements of q.split(' ')
WordCount(q) == Cardinality({i \in 1..Len(q) : q[i] = " "}) + 1

\* start of the k-th last element of q.split(' ')
LastWordsStart(q, k) ==
  LET spaces == {i \in 1..Len(q) : q[i] = " "}
  IN CHOOSE i \in spaces : Cardinality({j \in spaces : j >= i}) = k

\* baseLocation: the location phrase of the query
ExtractBaseLocation(q) ==
  LET m1 == InMatch(q)
      m2 == CommaMatch(q)
      matched == IF m1.matched THEN IF m1.g2 = None THEN m1.g1 ELSE CommaJoin(m1.g1, m1.g2[1])
                 ELSE IF m2.matched THEN CommaJoin(m2.g1, m2.g2[1])
                 ELSE q
  IN IF matched = q /\ WordCount(q) > 2
       THEN SubSeq(q, LastWordsStart(q, 2) + 1, Len(q))
       ELSE matched

\* the suffixes of q that /\s+in\s+<loc>$/i matches, by their first index
InSuffixStarts(q, loc) ==
  {s \in 1..Len(q) : \E a \in 1..Len(q), b \in 1..Len(q) :
     /\ s + a + 2 + b + Len(loc) - 1 = Len(q)
     /\ \A k \in s..(s + a - 1) : IsSpace(q[k])
     /\ Lower(q[s + a]) = "i" /\ Lower(q[s + a + 1]) = "n"
     /\ \A k \in (s + a + 2)..(s + a + 1 + b) : IsSpace(q[k])
     /\ \A k \in 1..Len(loc) : Lower(q[s + a + 1 + b + k]) = Lower(loc[k])}

\* String.prototype.trim
Trim(q) ==
  LET keep == {i \in 1..Len(q) : ~IsSpace(q[i])}
  IN IF keep = {} THEN <<>>
     ELSE SubSeq(q, CHOOSE i \in keep : \A k \in keep : i <= k,
                    CHOOSE i \in keep : \A k \in keep : k <= i)

\* query.split(',')[0].split(' ')[0]
FirstToken(q) ==
  LET stops == {i \in 1..Len(q) : q[i] = "," \/ q[i] = " "}
  IN IF stops = {} THEN q
     ELSE SubSeq(q, 1, (CHOOSE i \in stops : \A k \in stops : i <= k) - 1)

\* the characters of the class [-/\\^$*+?.()|[\]{}]
RegExpSpecial == {"-", "/", "\\", "^", "$", "*", "+", "?", ".", "(", ")", "|", "[", "]", "{", "}"}

\* (a location phrase put into the pattern as it is)
EscapeRegExpNothing(loc) == loc

\* baseLocation.replace(/[-/\\^$*+?.()|[\]{}]/g, '\\$&'): a backslash before every
\* special character
RECURSIVE EscapeRegExp(_)
EscapeRegExp(loc) ==
  IF loc = <<>> THEN <<>>
  ELSE (IF Head(loc) \in RegExpSpecial THEN <<"\\", Head(loc)>> ELSE <<Head(loc)>>)
       \o EscapeRegExp(Tail(loc))

\* the source of the pattern `\\s+in\\s+${...}$`
TermPatternSource(baseLocation) ==
  <<"\\", "s", "+", "i", "n", "\\", "s", "+">> \o EscapeRegExp(baseLocation) \o <<"$">>

\* new RegExp(source, 'i') returns: from character i on, inside `depth` open
\* groups, the source has no backslash at its end, no ")" without its "(" and
\* no "(" left open (a SyntaxError otherwise; of the special characters the
\* queries of the model hold "(" only)
RECURSIVE PatternCompilesFrom(_, _, _)
PatternCompilesFrom(source, i, depth) ==
  IF i > Len(source) THEN depth = 0
  ELSE IF source[i] = "\\" THEN i + 1 <= Len(source) /\ PatternCompilesFrom(source, i + 2, depth)
  ELSE IF source[i] = "(" THEN PatternCompilesFrom(source, i + 1, depth + 1)
  ELSE IF source[i] = ")" THEN depth > 0 /\ PatternCompilesFrom(source, i + 1, depth - 1)
  ELSE PatternCompilesFrom(source, i + 1, depth)

PatternCompiles(source) == PatternCompilesFrom(source, 1, 0)

\* searchTerm: the query without its location part
DeriveSearchTerm(q, baseLocation) ==
  LET starts == InSuffixStarts(q, baseLocation)
      r1 == IF starts = {} THEN q
            ELSE SubSeq(q, 1, (CHOOSE s \in starts : \A k \in starts : s <= k) - 1)
      m == InMatch(r1)
      r2 == IF m.matched THEN SubSeq(r1, 1, m.first - 1) \o SubSeq(r1, m.last + 1, Len(r1))
            ELSE r1
      term == Trim(r2)
  IN IF Len(term) < 2 THEN FirstToken(q) ELSE term

(***************************************************************************)
(* performGridSearch: geocoding and the grid of tiles.  A coordinate is a   *)
(* binary floating-point number of Precision significant bits, written as  *)
(* a natural number of units of 1 / Degree of a degree; every arithmetic   *)
(* operation rounds its exact result to the nearest such number, ties to   *)
(* the even significand (IEEE 754 round-to-nearest-even); below            *)
(* 2^Precision units the spacing stays one unit (gradual underflow).       *)
(* Coordinates are non-negative.                                           *)
(***************************************************************************)
\* one degree, in units
Degree == 2^10

\* the spacing of the floating-point numbers around n / d units
RECURSIVE QuantumFrom(_, _, _)
QuantumFrom(n, d, q) == IF n < d * q * 2^Precision THEN q ELSE QuantumFrom(n, d, 2 * q)

Quantum(n, d) == QuantumFrom(n, d, 1)

\* n / m rounded to the nearest integer, ties to even
RoundHalfEven(n, m) ==
  LET f == n \div m
      r == n % m
  IN IF 2 * r < m THEN f
     ELSE IF 2 * r > m THEN f + 1
     ELSE IF f % 2 = 0 THEN f ELSE f + 1

\* the floating-point number nearest to n / d units (d > 0); rounding is
\* symmetric about zero
Fl(n, d) ==
  IF n >= 0 THEN Quantum(n, d) * RoundHalfEven(n, d * Quantum(n, d))
  ELSE 0 - Quantum(0 - n, d) * RoundHalfEven(0 - n, d * Quantum(0 - n, d))

\* a + b, a - b, i * b and a / k in floating point
FAdd(a, b) == Fl(a + b, 1)

FSub(a, b) == Fl(a - b, 1)

FMul(i, b) == Fl(i * b, 1)

FDiv(a, k) == Fl(a, k)

\* const radiusInDegrees = 0.25
RadiusInDegrees == Degree \div 4
\* if (maxSpan > 0.5)
LargeSpan == Degree \div 2
\* Math.min(gridSize + 1, 6)
MaxGridSize == 6
\* const BATCH_SIZE = 4
BATCH_SIZE == 4
\* const MAX_PAGES_PER_TILE = 3
MAX_PAGES_PER_TILE == 3
\* async function fetchWithRetry(url: string, retries = 3)
Retries == 3

\* gridSizes[searchIntensity as keyof typeof gridSizes] || 2
BaseGridSize(intensity) ==
  CASE intensity = "low" -> 2 [] intensity = "medium" -> 3 [] intensity = "high" -> 4
    [] OTHER -> 2

Coord(lat, lng) == [lat |-> lat, lng |-> lng]

\* the coordinates the geocoder resolves the location to: 10 N, 20 E
BaseCoords == Coord(10 * Degree, 20 * Degree)

\* the bounding box the geocoder may attach: wider than 0.5 degrees
GeoBoxes ==
  {[southwest |-> Coord(10 * Degree - 5 * (Degree \div 16), 20 * Degree - 3 * (Degree \div 16)),
    northeast |-> Coord(10 * Degree + 5 * (Degree \div 16), 20 * Degree + 3 * (Degree \div 16))]}

\* results[0] of a geocoding response
GeocodeResults ==
  [wellFormed : {TRUE}, location : {BaseCoords}, bounds : {None} \cup {Some(b) : b \in GeoBoxes}]
  \cup {[wellFormed |-> FALSE]}

\* what the geocoding endpoint answers
GeocodeResponses ==
  [kind : {"data"}, status : {"OK"}, results : {<<>>} \cup {<<g>> : g \in GeocodeResults}]
  \cup {[kind |-> "data", status |-> "ZERO_RESULTS", results |-> <<>>]}
  \cup {[kind |-> "throw"]}

\* TypeError of reading geometry of a result that has none
GeometryError == <<"TypeError: Cannot read properties of undefined (reading 'location')">>

\* STEP 2: the search area, from the bounds of the geocoding result or +/- the radius
SearchArea(g) ==
  IF g.bounds # None THEN g.bounds[1]
  ELSE [southwest |-> Coord(FSub(g.location.lat, RadiusInDegrees),
                            FSub(g.location.lng, RadiusInDegrees)),
        northeast |-> Coord(FAdd(g.location.lat, RadiusInDegrees),
                            FAdd(g.location.lng, RadiusInDegrees))]

\* the auto-scaled grid size
ScaledGridSize(gridSize, area) ==
  LET latSpan == FSub(area.northeast.lat, area.southwest.lat)
      lngSpan == FSub(area.northeast.lng, area.southwest.lng)
  IN IF Max(latSpan, lngSpan) > LargeSpan THEN Min(gridSize + 1, MaxGridSize) ELSE gridSize

\* (tiles as high as they are wide)
CreateTilesSquare(area, gridSize) ==
  LET lngSpan == FSub(area.northeast.lng, area.southwest.lng)
      cellLng == FDiv(lngSpan, gridSize)
  IN [n \in 1..(gridSize * gridSize) |->
        LET i == (n - 1) \div gridSize
            j == (n - 1) % gridSize
            swLat == FAdd(area.southwest.lat, FMul(i, cellLng))
            swLng == FAdd(area.southwest.lng, FMul(j, cellLng))
        IN [swLat |-> swLat,
            swLng |-> swLng,
            neLat |-> FAdd(swLat, cellLng),
            neLng |-> FAdd(swLng, cellLng),
            tileIndex |-> <<i, j>>]]

\* STEP 3: the tiles, row by row; tile (i, j) is element i * gridSize + j + 1
CreateTiles(area, gridSize) ==
  LET latSpan == FSub(area.northeast.lat, area.southwest.lat)
      lngSpan == FSub(area.northeast.lng, area.southwest.lng)
      cellLat == FDiv(latSpan, gridSize)
      cellLng == FDiv(lngSpan, gridSize)
  IN [n \in 1..(gridSize * gridSize) |->
        LET i == (n - 1) \div gridSize
            j == (n - 1) % gridSize
            swLat == FAdd(area.southwest.lat, FMul(i, cellLat))
            swLng == FAdd(area.southwest.lng, FMul(j, cellLng))
        IN [swLat |-> swLat,
            swLng |-> swLng,
            neLat |-> FAdd(swLat, cellLat),
            neLng |-> FAdd(swLng, cellLng),
            tileIndex |-> <<i, j>>]]

(***************************************************************************)
(* performGridTileTextSearch.                                              *)
(***************************************************************************)
\* Math.pow(2, attempt)
RECURSIVE Pow2(_)
Pow2(n) == IF n = 0 THEN 1 ELSE 2 * Pow2(n - 1)

\* (a helper that waits and tries again after every rejected fetch, the last
\* one included)
RECURSIVE FetchWithRetrySwallowing(_, _, _, _)
FetchWithRetrySwallowing(answers, retries, attempt, waits) ==
  IF attempt >= retries THEN [kind |-> "undefined", fetches |-> attempt, waits |-> waits]
  ELSE LET data == answers[attempt + 1]
       IN IF data.kind = "throw"
            THEN FetchWithRetrySwallowing(answers, retries, attempt + 1, Append(waits, 1000))
          ELSE IF data.status = "INVALID_REQUEST" /\ attempt < retries - 1
            THEN FetchWithRetrySwallowing(answers, retries, attempt + 1,
                                          Append(waits, Pow2(attempt) * 1000))
          ELSE [kind |-> "data", data |-> data, fetches |-> attempt + 1, waits |-> waits]

\* fetchWithRetry from attempt `attempt` on, against the answers `answers` of
\* the upstream to the successive fetches: the value returned or the error
\* thrown, the number of fetches made and the delays waited
RECURSIVE FetchWithRetryFrom(_, _, _, _)
FetchWithRetryFrom(answers, retries, attempt, waits) ==
  IF attempt >= retries THEN [kind |-> "undefined", fetches |-> attempt, waits |-> waits]
  ELSE LET data == answers[attempt + 1]
       IN IF data.kind = "throw"
            THEN IF attempt = retries - 1
                   THEN [kind |-> "throw", fetches |-> attempt + 1, waits |-> waits]
                   ELSE FetchWithRetryFrom(answers, retries, attempt + 1, Append(waits, 1000))
          ELSE IF data.status = "INVALID_REQUEST" /\ attempt < retries - 1
            THEN FetchWithRetryFrom(answers, retries, attempt + 1,
                                    Append(waits, Pow2(attempt) * 1000))
          ELSE [kind |-> "data", data |-> data, fetches |-> attempt + 1, waits |-> waits]

FetchWithRetry(answers, retries) == FetchWithRetryFrom(answers, retries, 0, <<>>)

\* (a page request that always waits for the token to become valid)
PageRequestAlwaysWaiting(run) == [pagetoken |-> run.nextPageToken, delay |-> 2200]

\* the page request the tile search `run` makes next: the pagetoken parameter
\* of its URL, if it has one, and the delay waited before it
\*   if (nextPageToken) { searchUrl += `&pagetoken=...`; await wait(2200) }
PageRequest(run) ==
  [pagetoken |-> run.nextPageToken,
   delay |-> IF run.nextPageToken # None THEN 2200 ELSE 0]

\* what one call of fetchWithRetry did for the page request of `run` against
\* the answers `answers`: the token and the delay of the request, how the call
\* ended, the status, the number of results and the token of the data it
\* returned, the fetches it made, what each of them received and the delays it
\* waited between them
FetchRecord(run, res, answers) ==
  [kind |-> res.kind, status |-> IF res.kind = "data" THEN Some(res.data.status) ELSE None,
   results |-> IF res.kind = "data" THEN Len(res.data.results) ELSE 0,
   token |-> IF res.kind = "data" THEN res.data.next_page_token ELSE None,
   pagetoken |-> PageRequest(run).pagetoken,
   delay |-> PageRequest(run).delay,
   fetches |-> res.fetches,
   received |-> [i \in 1..res.fetches |->
                   IF answers[i].kind = "throw" THEN "throw" ELSE answers[i].status],
   waits |-> res.waits]

\* the locals of performGridTileTextSearch at entry, for tile `tile`
TileEntry(tile) ==
  [tile |-> tile, status |-> "running", results |-> <<>>, apiCalls |-> 0,
   rawResultsCount |-> 0, uniqueNewCount |-> 0, nextPageToken |-> None, pageCount |-> 0]

\* (a loop that follows the tokens as long as there are any)
MorePagesWhileToken(run) == run.nextPageToken # None

\* while (nextPageToken && pageCount < MAX_PAGES_PER_TILE)
MorePages(run) == run.nextPageToken # None /\ run.pageCount < MAX_PAGES_PER_TILE

\* (an iteration that gives up the pages collected when fetchWithRetry throws)
TileStepDroppingOnThrow(run, res, existingPlaceIds) ==
  IF res.kind = "throw"
    THEN [run EXCEPT !.status = "done", !.results = <<>>, !.rawResultsCount = 0]
  ELSE IF res.kind = "undefined" THEN [run EXCEPT !.apiCalls = @ + 1, !.status = "done"]
  ELSE LET data == res.data
           r1 == [run EXCEPT !.apiCalls = @ + 1]
           r2 == IF data.status = "OK" /\ Len(data.results) > 0
                   THEN [r1 EXCEPT
                           !.rawResultsCount = @ + Len(data.results),
                           !.results = @ \o data.results,
                           !.uniqueNewCount = @ + Cardinality(
                              {i \in 1..Len(data.results) :
                                 data.results[i].place_id \notin existingPlaceIds}),
                           !.nextPageToken = data.next_page_token,
                           !.pageCount = @ + 1]
                   ELSE [r1 EXCEPT !.nextPageToken = None]
       IN IF MorePages(r2) THEN r2 ELSE [r2 EXCEPT !.status = "done"]

\* (an iteration that leaves the token of the page before in place when the
\* page has no results)
TileStepKeepingToken(run, res, existingPlaceIds) ==
  IF res.kind = "throw" THEN [run EXCEPT !.status = "done"]
  ELSE IF res.kind = "undefined" THEN [run EXCEPT !.apiCalls = @ + 1, !.status = "done"]
  ELSE LET data == res.data
           r1 == [run EXCEPT !.apiCalls = @ + 1]
           r2 == IF data.status = "OK" /\ Len(data.results) > 0
                   THEN [r1 EXCEPT
                           !.rawResultsCount = @ + Len(data.results),
                           !.results = @ \o data.results,
                           !.uniqueNewCount = @ + Cardinality(
                              {i \in 1..Len(data.results) :
                                 data.results[i].place_id \notin existingPlaceIds}),
                           !.nextPageToken = data.next_page_token,
                           !.pageCount = @ + 1]
                   ELSE r1
       IN IF MorePages(r2) THEN r2 ELSE [r2 EXCEPT !.status = "done"]

\* one iteration of the do-while loop of the tile search `run`, given what
\* fetchWithRetry ended with and the shared set existingPlaceIds
TileStep(run, res, existingPlaceIds) ==
  IF res.kind = "throw" THEN [run EXCEPT !.status = "done"]
  ELSE IF res.kind = "undefined" THEN [run EXCEPT !.apiCalls = @ + 1, !.status = "done"]
  ELSE LET data == res.data
           r1 == [run EXCEPT !.apiCalls = @ + 1]
           r2 == IF data.status = "OK" /\ Len(data.results) > 0
                   THEN [r1 EXCEPT
                           !.rawResultsCount = @ + Len(data.results),
                           !.results = @ \o data.results,
                           !.uniqueNewCount = @ + Cardinality(
                              {i \in 1..Len(data.results) :
                                 data.results[i].place_id \notin existingPlaceIds}),
                           !.nextPageToken = data.next_page_token,
                           !.pageCount = @ + 1]
                   ELSE [r1 EXCEPT !.nextPageToken = None]
       IN IF MorePages(r2) THEN r2 ELSE [r2 EXCEPT !.status = "done"]

\* the value the tile search resolves to
TileResult(run) ==
  [results |-> run.results, apiCalls |-> run.apiCalls,
   tileInfo |-> [tileIndex |-> run.tile.tileIndex,
                 sw |-> Coord(run.tile.swLat, run.tile.swLng),
                 ne |-> Coord(run.tile.neLat, run.tile.neLng),
                 pages |-> run.apiCalls, rawResults |-> run.rawResultsCount,
                 uniqueNew |-> run.uniqueNewCount, apiCalls |-> run.apiCalls]]

(***************************************************************************)
(* The upstream of the tile searches.  Tile t (0-based, in grid order)     *)
(* regularly has 1 + t % 3 pages of results; neighbouring tiles share      *)
(* places.                                                                 *)
(***************************************************************************)
RegularPages(t) == 1 + (t % 3)

TilePage(t, pageNo, n) ==
  [i \in 1..n |-> Place(t * ((3 * n) \div 4) + pageNo * n + i, t + 1)]

\* the token the upstream hands out with page pageNo (0-based) of tile t
PageToken(t, pageNo) == <<t, pageNo + 1>>

OkData(results, token) ==
  [kind |-> "data", status |-> "OK", results |-> results, next_page_token |-> token]

StatusData(status) ==
  [kind |-> "data", status |-> status, results |-> <<>>, next_page_token |-> None]

Thrown == [kind |-> "throw"]

\* the regular answer to the request for page pageNo (0-based) of tile t: a
\* tile of three pages repeats its first page as its third, and offers a token
\* on it too
RegularData(t, pageNo, up) ==
  OkData(TilePage(t, pageNo % 2, up.pageLen),
         IF pageNo + 1 < RegularPages(t) \/ RegularPages(t) = MAX_PAGES_PER_TILE
           THEN Some(PageToken(t, pageNo))
           ELSE None)

\* the answers to the fetches of one page request that deviate from the regular one
FaultyAnswers(t, pageNo, up) ==
  LET reg == RegularData(t, pageNo, up)
  IN {<<StatusData("ZERO_RESULTS")>>,
      <<StatusData("INVALID_REQUEST"), reg>>,
      <<Thrown, Thrown, Thrown>>}

\* the answers the upstream may give to the fetches of one page request
TileAnswers(t, pageNo, up) ==
  {[answers |-> <<RegularData(t, pageNo, up)>>, fault |-> 0]}
  \cup (IF up.faults > 0
          THEN {[answers |-> a, fault |-> 1] : a \in FaultyAnswers(t, pageNo, up)}
          ELSE {})

\* the answers that end a call of fetchWithRetry at once: the regular page,
\* an OK answer without results, no results, a refusal
FinalAnswers(t, pageNo, up) ==
  {RegularData(t, pageNo, up), OkData(<<>>, Some(PageToken(t, pageNo))),
   StatusData("ZERO_RESULTS"),
   StatusData("REQUEST_DENIED")}

\* the answers fetchWithRetry tries again after: the transient status, a
\* fetch that rejects
TransientAnswers == {StatusData("INVALID_REQUEST"), Thrown}

\* every course one page request can take: the answers to its fetches, up to
\* the last one fetchWithRetry makes
AnyAnswers(t, pageNo, up) ==
  {<<x>> : x \in FinalAnswers(t, pageNo, up)}
  \cup {<<r, x>> : r \in TransientAnswers, x \in FinalAnswers(t, pageNo, up)}
  \cup {<<r1, r2, x>> : r1 \in TransientAnswers, r2 \in TransientAnswers,
                         x \in FinalAnswers(t, pageNo, up) \cup TransientAnswers}

\* the answers an upstream that deviates in any way, at one page request of
\* its choice, gives to the fetches of one page request
AnyTileAnswers(t, pageNo, up) ==
  {[answers |-> <<RegularData(t, pageNo, up)>>, fault |-> 0]}
  \cup (IF up.faults > 0
          THEN {[answers |-> a, fault |-> up.faults] :
                  a \in AnyAnswers(t, pageNo, up) \ {<<RegularData(t, pageNo, up)>>}}
          ELSE {})

(***************************************************************************)
(* performGridSearch: the merge of a batch and the value returned.         *)
(***************************************************************************)
\* (a merge that keeps every place)
IsNewPlaceAlways(uniquePlaceIds, place) == TRUE

\* if (!uniquePlaceIds.has(place.place_id))
IsNewPlace(uniquePlaceIds, place) == place.place_id \notin uniquePlaceIds

\* for (const place of tileResult.results) ... from element i on
RECURSIVE MergePlaces(_, _, _)
MergePlaces(acc, places, i) ==
  IF i > Len(places) THEN acc
  ELSE IF IsNewPlace(acc.uniquePlaceIds, places[i])
    THEN MergePlaces([acc EXCEPT !.uniquePlaceIds = @ \cup {places[i].place_id},
                                 !.allResults = Append(@, places[i])], places, i + 1)
    ELSE MergePlaces(acc, places, i + 1)

\* (a merge that adds up the new places of the tiles instead of their raw results)
MergeTileAddingNew(acc, tileResult) ==
  MergePlaces([acc EXCEPT !.apiCalls = @ + tileResult.apiCalls,
                          !.rawResultsCount = @ + tileResult.tileInfo.uniqueNew,
                          !.tileLogs = Append(@, tileResult.tileInfo)],
              tileResult.results, 1)

\* (a merge that passes over a tile that counted no new place)
MergeTileIfNew(acc, tileResult) ==
  MergePlaces([acc EXCEPT !.apiCalls = @ + tileResult.apiCalls,
                          !.rawResultsCount = @ + tileResult.tileInfo.rawResults,
                          !.tileLogs = Append(@, tileResult.tileInfo)],
              IF tileResult.tileInfo.uniqueNew = 0 THEN <<>> ELSE tileResult.results, 1)

\* the body of `for (const tileResult of batchResults)`
MergeTile(acc, tileResult) ==
  MergePlaces([acc EXCEPT !.apiCalls = @ + tileResult.apiCalls,
                          !.rawResultsCount = @ + tileResult.tileInfo.rawResults,
                          !.tileLogs = Append(@, tileResult.tileInfo)],
              tileResult.results, 1)

\* (a join that collects the values in their order of completion)
BatchResultsAsCompleted(runs, order) == [k \in 1..Len(order) |-> TileResult(runs[order[k]])]

\* const batchResults = await Promise.all(batchPromises): the values of the
\* tile searches in the order of the batch, whatever their order of completion
BatchResults(runs, order) == [k \in 1..Len(runs) |-> TileResult(runs[k])]

\* (a merge that looks at the budget before each tile of the batch)
RECURSIVE MergeBatchStoppingAtBudget(_, _, _)
MergeBatchStoppingAtBudget(acc, batchResults, k) ==
  IF k > Len(batchResults) \/ Len(acc.allResults) >= maxResults THEN acc
  ELSE MergeBatchStoppingAtBudget(MergeTile(acc, batchResults[k]), batchResults, k + 1)

\* for (const tileResult of batchResults) ... from element k on
RECURSIVE MergeBatch(_, _, _)
MergeBatch(acc, batchResults, k) ==
  IF k > Len(batchResults) THEN acc
  ELSE MergeBatch(MergeTile(acc, batchResults[k]), batchResults, k + 1)

\* Number.prototype.toFixed(4) of the coordinate x, in ten-thousandths of a
\* degree: the nearest one, the larger of two equally near
ToFixed4(x) == (2 * 10000 * x + Degree) \div (2 * Degree)

\* the meta record of a grid search
GridMeta(g) ==
  [tilesCreated |-> Len(g.tiles), tilesProcessed |-> Len(g.tileLogs),
   apiCalls |-> g.apiCalls, rawResults |-> g.rawResultsCount,
   uniqueResults |-> Len(g.allResults),
   tileLogs |-> [n \in 1..Len(g.tileLogs) |->
      LET log == g.tileLogs[n]
      IN [tileIndex |-> log.tileIndex,
          sw |-> <<ToFixed4(log.sw.lat), ToFixed4(log.sw.lng)>>,
          ne |-> <<ToFixed4(log.ne.lat), ToFixed4(log.ne.lng)>>,
          pages |-> log.pages, rawResults |-> log.rawResults, uniqueNew |-> log.uniqueNew]]]

\* (a return of the whole merged list)
GridResultsAll(allResults, budget) == allResults

\* results: allResults.slice(0, maxResults)
GridResults(allResults, budget) == Slice(allResults, budget)

\* the meta record of a grid search that fell back to the standard search;
\* error is the error caught, if one was
FallbackMeta(results, error) ==
  IF error = None THEN StdMeta(results)
  ELSE Spread(StdMeta(results), [error |-> error[1]])

\* (a fallback that searches for the derived search term)
FallbackQueryTerm == grid.searchTerm

\* the query the fallback standard search of the catch block runs with
FallbackQuery == query

\* const geocodingAttempts = [baseLocation, `${baseLocation}, India`]
GeocodingAttempts(baseLocation) == <<baseLocation, baseLocation \o <<",", " ", "India">>>>

\* what a geocoding request was answered with: a result ("usable"), a status
\* that is not OK or an empty list of results ("unusable"), or no answer at
\* all ("throw")
GeocodeAnswer(r) ==
  IF r.kind = "throw" THEN "throw"
  ELSE IF r.status # "OK" \/ r.results = <<>> THEN "unusable"
  ELSE "usable"

\* the locals of performGridSearch(query, googleApiKey, maxResults, searchIntensity)
\* when it reaches the geocoding loop
GridEntryAt(baseLocation) ==
  [active |-> TRUE, apiCalls |-> 0, uniquePlaceIds |-> {}, rawResultsCount |-> 0,
   gridSize |-> BaseGridSize(searchIntensity),
   baseLocation |-> baseLocation,
   searchTerm |-> DeriveSearchTerm(query, baseLocation),
   attempt |-> 0, geocoded |-> <<>>, answers |-> <<>>, baseCoords |-> None, bounds |-> None,
   southwest |-> None, northeast |-> None, tiles |-> <<>>, batchStart |-> 0,
   tileLogs |-> <<>>, allResults |-> <<>>]

GridEntry == GridEntryAt(ExtractBaseLocation(query))

\* the grid search is entered: the pattern of the search term is compiled
\* before the try block, so a pattern that does not compile rejects the call
\* and serve's catch answers
ServeGridSearch(g) ==
  IF ~PatternCompiles(TermPatternSource(g.baseLocation))
    THEN /\ ServeCatch
         /\ UNCHANGED <<std, stdCalls, grid>>
  ELSE /\ pc' = "geocode"
       /\ grid' = g
       /\ UNCHANGED <<resp, std, stdCalls>>


\* (a batch of all the tiles that are left)
StartBatchAll(tiles, batchStart) ==
  [k \in 1..(Len(tiles) - batchStart) |-> TileEntry(tiles[batchStart + k])]

\* const batch = tiles.slice(batchStart, batchStart + BATCH_SIZE), each tile
\* search started
StartBatch(tiles, batchStart) ==
  [k \in 1..Min(BATCH_SIZE, Len(tiles) - batchStart) |-> TileEntry(tiles[batchStart + k])]

(***************************************************************************)
(* The steps of the request handler.                                       *)
(***************************************************************************)
\* (a validation that looks at the credential first)
ValidationStatusKeyFirst ==
  IF KeyMissing THEN 500
  ELSE IF QueryMissing THEN 400
  ELSE 0

\* the status of the error response the validation of a request ends with,
\* 0 when the request is valid
ValidationStatus ==
  IF QueryMissing THEN 400
  ELSE IF KeyMissing THEN 500
  ELSE 0

\* serve, from the arrival of the request to its first upstream call
ServeReceive ==
  /\ pc = "request"
  /\ IF ValidationStatus # 0
       THEN /\ pc' = "done"
            /\ resp' = ErrorResponse(ValidationStatus,
                         IF ValidationStatus = 400 THEN "Query parameter is required"
                         ELSE "Google Places API key not configured")
            /\ UNCHANGED <<std, stdCalls, grid>>
     ELSE IF UseStandardSearch
       THEN /\ StdCall(stdCalls, "serve", query, maxResults, None)
            /\ UNCHANGED <<resp, grid>>
     ELSE ServeGridSearch(GridEntry)
  /\ UNCHANGED <<body, googleApiKey, sent, srv, batch, completed, upstream, tileRaw, tileCalls,
                 thrown, gridReturn>>

\* performGridSearch returns `value` to serve
GridReturn(value) ==
  /\ gridReturn' = Some(value)
  /\ ServeSearchDone(value.results, value.apiCalls, value.meta)

\* performGridSearch returns the results of its fallback standard search
GridFallbackReturn(results, error) ==
  GridReturn([results |-> results,
              apiCalls |-> grid.apiCalls + CeilDiv(Len(results), ResultsPerCall),
              meta |-> FallbackMeta(results, error)])

\* performStandardSearch returns `results` to its caller
StdReturn(results) ==
  /\ stdCalls' = StdLog("return", results)
  /\ std' = NoStd
  /\ thrown' = thrown
  /\ CASE std.caller = "serve" ->
            /\ gridReturn' = gridReturn
            /\ ServeSearchDone(results,
                               IF Len(results) > 0
                                 THEN CeilDiv(Len(results), ResultsPerCall)
                                 ELSE 1,
                               StdMeta(results))
       [] std.caller = "gridNoGeo" -> GridFallbackReturn(results, None)
       [] std.caller = "gridCatch" -> GridFallbackReturn(results, std.error)

\* performStandardSearch throws `error` to its caller: the catch block of
\* performGridSearch runs the standard search again, the others reach the
\* catch block of serve
StdThrow(error) ==
  /\ thrown' = Append(thrown, [site |-> std.caller, error |-> error])
  /\ gridReturn' = gridReturn
  /\ IF std.caller = "gridNoGeo"
       THEN /\ StdCall(StdLog("throw", <<>>), "gridCatch", FallbackQuery, maxResults,
                       Some(error))
            /\ UNCHANGED <<resp, srv>>
       ELSE /\ stdCalls' = StdLog("throw", <<>>)
            /\ std' = NoStd
            /\ ServeCatch

\* if (allResults.length >= maxResults) allResults = allResults.slice(0, maxResults)
StdTruncate(allResults, budget) == Slice(allResults, budget)

\* one iteration of the do-while loop of performStandardSearch: the request
\* of a page and the answer r of the upstream to it
StdAnswered(r) ==
  /\ pc = "std"
  /\ sent' = [sent EXCEPT !.search = @ + 1]
  /\ IF r.kind = "throw" THEN StdThrow(FetchError)
     ELSE IF r.status # "OK" /\ r.status # "ZERO_RESULTS"
       THEN IF std.pageCount = 0 THEN StdThrow(PlacesError(r.status))
            ELSE StdReturn(std.allResults)
     ELSE IF r.status = "ZERO_RESULTS" \/ Len(r.results) = 0
       THEN StdReturn(std.allResults)
     ELSE LET allResults == std.allResults \o r.results
          IN IF Len(allResults) >= std.maxResults
               THEN StdReturn(StdTruncate(allResults, std.maxResults))
             ELSE IF r.next_page_token
               THEN /\ std' = [std EXCEPT !.allResults = allResults,
                                          !.nextPageToken = TRUE,
                                          !.pageCount = @ + 1,
                                          !.requests = @ + 1]
                    /\ UNCHANGED <<pc, resp, srv, stdCalls, thrown, gridReturn>>
             ELSE StdReturn(allResults)
  /\ UNCHANGED <<body, googleApiKey, grid, batch, completed, upstream, tileRaw, tileCalls>>

\* one page request of the standard search, answered by an upstream that hands
\* out a token with fewer than MaxStdPages pages
StdFetch(r) ==
  /\ pc = "std"
  /\ r \in StdResponses(std.pageCount)
  /\ StdAnswered(r)

\* the catch block of performGridSearch, entered with the locals g
GridCatch(g, site, error) ==
  /\ grid' = g
  /\ thrown' = Append(thrown, [site |-> site, error |-> error])
  /\ StdCall(stdCalls, "gridCatch", FallbackQuery, maxResults, Some(error))
  /\ UNCHANGED <<resp, srv, batch, completed, upstream, tileRaw, tileCalls>>

\* STEP 2 to the start of the first batch, for the geocoding result geo
GridStartTiles(g, geo) ==
  LET area == SearchArea(geo)
      gridSize == ScaledGridSize(g.gridSize, area)
      tiles == CreateTiles(area, gridSize)
  IN /\ grid' = [g EXCEPT !.baseCoords = Some(geo.location), !.bounds = geo.bounds,
                          !.southwest = Some(area.southwest),
                          !.northeast = Some(area.northeast),
                          !.gridSize = gridSize, !.tiles = tiles]
     /\ batch' = StartBatch(tiles, 0)
     /\ completed' = <<>>
     /\ upstream' \in Upstreams
     /\ tileRaw' = [n \in 1..Len(tiles) |-> <<>>]
     /\ tileCalls' = [n \in 1..Len(tiles) |-> <<>>]
     /\ pc' = "tiles"
     /\ UNCHANGED <<resp, srv, std, stdCalls, thrown>>

\* one iteration of the geocoding loop: the request and the answer r to it
GeocodeFetch(r) ==
  /\ pc = "geocode"
  /\ sent' = [sent EXCEPT !.geocode = @ + 1]
  /\ LET g0 == [grid EXCEPT !.geocoded =
                   Append(@, GeocodingAttempts(grid.baseLocation)[grid.attempt + 1]),
                              !.answers = Append(@, GeocodeAnswer(r))]
         g1 == [g0 EXCEPT !.apiCalls = @ + 1]
     IN IF r.kind = "throw" THEN GridCatch(g0, "geocode", FetchError)
        ELSE IF r.status = "OK" /\ Len(r.results) > 0
          THEN IF r.results[1].wellFormed THEN GridStartTiles(g1, r.results[1])
               ELSE GridCatch(g1, "geometry", GeometryError)
        ELSE IF grid.attempt + 1 < Len(GeocodingAttempts(grid.baseLocation))
          THEN /\ grid' = [g1 EXCEPT !.attempt = @ + 1]
               /\ UNCHANGED <<pc, resp, srv, std, stdCalls, batch, completed, upstream,
                              tileRaw, tileCalls, thrown>>
        ELSE /\ grid' = g1
             /\ StdCall(stdCalls, "gridNoGeo", query, maxResults, None)
             /\ UNCHANGED <<resp, srv, batch, completed, upstream, tileRaw, tileCalls, thrown>>
  /\ UNCHANGED <<body, googleApiKey, gridReturn>>

\* (a tile search that enters the places it finds into the shared set)
TileAnsweredInserting(k, a) ==
  LET res == FetchWithRetry(a.answers, Retries)
      run == TileStep(batch[k], res, grid.uniquePlaceIds)
  IN /\ sent' = [sent EXCEPT !.tile = @ + res.fetches]
     /\ batch' = [batch EXCEPT ![k] = run]
     /\ completed' = IF run.status = "done" THEN Append(completed, k) ELSE completed
     /\ upstream' = [upstream EXCEPT !.faults = @ - a.fault]
     /\ tileRaw' = [tileRaw EXCEPT ![grid.batchStart + k] = run.results]
     /\ tileCalls' = [tileCalls EXCEPT ![grid.batchStart + k] =
                        Append(@, FetchRecord(batch[k], res, a.answers))]
     /\ grid' = [grid EXCEPT !.uniquePlaceIds =
                   @ \cup {run.results[i].place_id : i \in 1..Len(run.results)}]
     /\ UNCHANGED <<pc, body, googleApiKey, resp, std, stdCalls, srv, thrown, gridReturn>>

\* one page request of the k-th tile search of the batch, through
\* fetchWithRetry against the answers a of the upstream, and what the tile
\* search does with its outcome
TileAnswered(k, a) ==
  LET res == FetchWithRetry(a.answers, Retries)
      run == TileStep(batch[k], res, grid.uniquePlaceIds)
  IN /\ sent' = [sent EXCEPT !.tile = @ + res.fetches]
     /\ batch' = [batch EXCEPT ![k] = run]
     /\ completed' = IF run.status = "done" THEN Append(completed, k) ELSE completed
     /\ upstream' = [upstream EXCEPT !.faults = @ - a.fault]
     /\ tileRaw' = [tileRaw EXCEPT ![grid.batchStart + k] = run.results]
     /\ tileCalls' = [tileCalls EXCEPT ![grid.batchStart + k] =
                        Append(@, FetchRecord(batch[k], res, a.answers))]
     /\ UNCHANGED <<pc, body, googleApiKey, resp, std, stdCalls, srv, grid, thrown,
                    gridReturn>>

\* one page request of the k-th tile search of the batch
TileFetch(k) ==
  /\ pc = "tiles"
  /\ k \in DOMAIN batch
  /\ batch[k].status = "running"
  /\ \E a \in TileAnswers(grid.batchStart + k - 1, batch[k].pageCount, upstream) :
       TileAnswered(k, a)

\* (a loop that stops only when no tile is left)
MoreBatchesWhileTiles(g) == g.batchStart + BATCH_SIZE < Len(g.tiles)

\* after the merge of a batch: no early stop (allResults.length >= maxResults)
\* and the loop condition batchStart + BATCH_SIZE < tiles.length holds
MoreBatches(g) == Len(g.allResults) < maxResults /\ g.batchStart + BATCH_SIZE < Len(g.tiles)

\* Promise.all of the batch resolved: the merge of the batch, then the early
\* stop, the end of the loop or the delay before the next batch
GridMergeBatch ==
  /\ pc = "tiles"
  /\ \A k \in DOMAIN batch : batch[k].status = "done"
  /\ LET g == MergeBatch(grid, BatchResults(batch, completed), 1)
     IN IF MoreBatches(g)
          THEN /\ grid' = g
               /\ pc' = "delay"
               /\ UNCHANGED <<resp, srv, gridReturn>>
          ELSE /\ grid' = g
               /\ GridReturn([results |-> GridResults(g.allResults, maxResults),
                              apiCalls |-> g.apiCalls, meta |-> GridMeta(g)])
  /\ UNCHANGED <<body, googleApiKey, sent, std, stdCalls, batch, completed, upstream,
                 tileRaw, tileCalls, thrown>>

\* the delay between two batches is over: the next batch starts
GridNextBatch ==
  /\ pc = "delay"
  /\ grid' = [grid EXCEPT !.batchStart = @ + BATCH_SIZE]
  /\ batch' = StartBatch(grid.tiles, grid.batchStart + BATCH_SIZE)
  /\ completed' = <<>>
  /\ pc' = "tiles"
  /\ UNCHANGED <<body, googleApiKey, resp, sent, std, stdCalls, srv, upstream, tileRaw, tileCalls,
                 thrown, gridReturn>>

(***************************************************************************)
(* serve: the detail lookups.                                              *)
(***************************************************************************)
\* (details.reviews || []).slice(0, 10)
MaxReviews == 10

\* a || b for an optional a that is truthy when present
Or(a, b) == IF a = None THEN b ELSE a[1]

\* what the details endpoint knows of place id: detailsData.result
DetailsOf(id) ==
  [name |-> IF id % 5 = 0 THEN None ELSE Some(1000 + id),
   formatted_address |-> IF id % 7 = 0 THEN None ELSE Some(5000 + id),
   formatted_phone_number |-> IF id % 3 = 0 THEN None ELSE Some(6000 + id),
   rating |-> IF id % 6 = 0 THEN None ELSE Some(1 + (id % 5)),
   user_ratings_total |-> IF id % 6 = 0 THEN None ELSE Some(10 + id),
   business_status |-> Some("OPERATIONAL"),
   website |-> IF id % 2 = 0 THEN Some(7000 + id) ELSE None,
   price_level |-> IF id % 3 = 1 THEN Some(id % 5) ELSE None,
   reviews |-> IF id % 4 = 0 THEN None
               ELSE Some([i \in 1..(IF id % 16 = 1 THEN MaxReviews + 2 ELSE id % 2) |->
                            [author_name |-> i, rating |-> 1 + (i % 5), text |-> 100 + i,
                             time |-> 200 + i, relative_time_description |-> 300 + i]])]

\* the outcomes of one detail lookup: an OK answer with a result, an OK answer
\* without one, a non-OK answer, an error thrown by fetch or json
DetailOutcomes == {"ok", "noresult", "status", "throw"}

\* the review of the response for the upstream review
ReviewRecord(review) ==
  [author |-> review.author_name, rating |-> review.rating, text |-> review.text,
   time |-> review.relative_time_description]

\* (a cut that keeps the last reviews)
FirstReviewsFromEnd(reviews) ==
  SubSeq(reviews, Max(1, Len(reviews) - MaxReviews + 1), Len(reviews))

\* (details.reviews || []).slice(0, 10)
FirstReviews(reviews) == Slice(reviews, MaxReviews)

\* the record of the response for `place`, given the outcome of its lookup;
\* an undefined property is a field that is None
DetailRecord(result, outcome) ==
  LET place == Summary(result)
  IN
  IF outcome = "ok"
    THEN LET details == DetailsOf(place.place_id)
         IN [id |-> place.place_id,
             name |-> Or(details.name, place.name),
             address |-> Or(details.formatted_address, place.formatted_address),
             phone |-> details.formatted_phone_number,
             rating |-> Or(details.rating, 0),
             totalReviews |-> Or(details.user_ratings_total, 0),
             status |-> details.business_status,
             website |-> details.website,
             priceLevel |-> details.price_level,
             reviews |-> LET reviews == FirstReviews(Or(details.reviews, <<>>))
                         IN [i \in 1..Len(reviews) |-> ReviewRecord(reviews[i])]]
  ELSE IF outcome \in {"noresult", "status"}
    THEN [id |-> place.place_id,
          name |-> place.name,
          address |-> place.formatted_address,
          phone |-> place.formatted_phone_number,
          rating |-> Or(place.rating, 0),
          totalReviews |-> Or(place.user_ratings_total, 0),
          status |-> place.business_status,
          website |-> place.website,
          priceLevel |-> place.price_level,
          reviews |-> <<>>]
  ELSE [id |-> place.place_id,
        name |-> place.name,
        address |-> place.formatted_address,
        phone |-> place.formatted_phone_number,
        rating |-> Or(place.rating, 0),
        totalReviews |-> Or(place.user_ratings_total, 0),
        status |-> place.business_status,
        reviews |-> <<>>]

\* a lookup that has not resolved yet
Pending == "pending"

\* the lookup of the n-th place resolves with `outcome`
DetailLookup(s, n, outcome) ==
  [s EXCEPT !.outcomes[n] = outcome,
            !.order = Append(@, n)]

\* (a join that collects the records in their order of completion)
DetailedResultsAsCompleted(s) ==
  [k \in 1..Len(s.order) |-> DetailRecord(s.allResults[s.order[k]], s.outcomes[s.order[k]])]

\* const detailedResults = await Promise.all(allResults.map(...)): the records
\* in the order of allResults, whatever the order of completion; the record of
\* a lookup is the one its callback built from the place and the outcome
DetailedResults(s) ==
  [n \in 1..Len(s.allResults) |-> DetailRecord(s.allResults[n], s.outcomes[n])]

\* (a response that counts the lookups that were answered)
DetailsResponseCountingAnswered(s) ==
  LET detailedResults == DetailedResults(s)
      answered == Cardinality({n \in 1..Len(s.allResults) : s.outcomes[n] # "throw"})
      totalApiCalls == s.apiCallsCount + answered
  IN ResultsResponse(detailedResults, totalApiCalls,
                     Spread(s.searchMeta, [detailsCalls |-> answered,
                                           totalApiCalls |-> totalApiCalls]))

\* the response of a request whose lookups have all resolved
DetailsResponse(s) ==
  LET detailedResults == DetailedResults(s)
      totalApiCalls == s.apiCallsCount + Len(detailedResults)
  IN ResultsResponse(detailedResults, totalApiCalls,
                     Spread(s.searchMeta, [detailsCalls |-> Len(detailedResults),
                                           totalApiCalls |-> totalApiCalls]))

\* one detail lookup: the request for the n-th place and the answer to it
DetailFetch(n, outcome) ==
  /\ pc = "details"
  /\ n \in 1..Len(srv.allResults)
  /\ srv.outcomes[n] = Pending
  /\ srv' = DetailLookup(srv, n, outcome)
  /\ sent' = [sent EXCEPT !.details = @ + 1]
  /\ UNCHANGED <<pc, body, googleApiKey, resp, std, stdCalls, grid, batch, completed,
                 upstream, tileRaw, tileCalls, thrown, gridReturn>>

\* Promise.all of the detail lookups resolved: the response of the request
ServeRespond ==
  /\ pc = "details"
  /\ \A n \in 1..Len(srv.allResults) : srv.outcomes[n] # Pending
  /\ resp' = DetailsResponse(srv)
  /\ pc' = "done"
  /\ UNCHANGED <<body, googleApiKey, sent, std, stdCalls, srv, grid, batch, completed,
                 upstream, tileRaw, tileCalls, thrown, gridReturn>>

\* how the outcomes of the lookups of one request are spread over its places
DetailPatterns == {"mixed"}

PatternOutcome(pattern, n) ==
  IF pattern # "mixed" THEN pattern
  ELSE IF n % 3 = 1 THEN "status" ELSE IF n % 3 = 2 THEN "throw" ELSE "ok"

\* the lookups of all the places resolve one after the other: DetailLookup
\* for n = 1, 2, ... in turn
AllLookups(s, pattern) ==
  [s EXCEPT !.outcomes = [n \in 1..Len(s.allResults) |-> PatternOutcome(pattern, n)],
            !.order = [n \in 1..Len(s.allResults) |-> n]]

\* all the detail lookups of a request, resolving in the order of allResults,
\* and its response, in one step
ServeDetails(pattern) ==
  /\ pc = "details"
  /\ pattern \in DetailPatterns
  /\ srv.order = <<>>
  /\ srv' = AllLookups(srv, pattern)
  /\ resp' = DetailsResponse(AllLookups(srv, pattern))
  /\ sent' = [sent EXCEPT !.details = @ + Len(srv.allResults)]
  /\ pc' = "done"
  /\ UNCHANGED <<body, googleApiKey, std, stdCalls, grid, batch, completed, upstream,
                 tileRaw, tileCalls, thrown, gridReturn>>

(***************************************************************************)
(* The specification of one request.                                       *)
(***************************************************************************)
\* the answers of the upstream to the page requests of a standard search
StdAnswers == UNION {StdResponses(pageNo) : pageNo \in 0..(MaxStdPages - 1)}

Next ==
  \/ ServeReceive
  \/ \E r \in StdAnswers : StdFetch(r)
  \/ \E r \in GeocodeResponses : GeocodeFetch(r)
  \/ \E k \in 1..BATCH_SIZE : TileFetch(k)
  \/ GridMergeBatch
  \/ GridNextBatch
  \/ \E pattern \in DetailPatterns : ServeDetails(pattern)

Spec == Init /\ [][Next]_vars

(***************************************************************************)
(* The geocoding and the partition of the search area alone: a grid        *)
(* request against a geocoder that resolves the location to one of a       *)
(* range of coordinates and bounding boxes.                                *)
(***************************************************************************)
\* the largest floating-point number below 2^k units
BelowPow2(k) == 2^k - 2^(k - Precision)

\* coordinates: round ones, and ones next to a power of two, where the
\* spacing of the floating-point numbers doubles
GridLocations ==
  {BaseCoords,
   Coord(BelowPow2(14), 20 * Degree),
   Coord(12 * Degree, BelowPow2(15) - 2^(15 - Precision)),
   Coord(3 * (Degree \div 8), 5 * (Degree \div 16))}

\* bounding boxes: spans of exactly 0.5 degrees, of one spacing more, of less,
\* of several degrees, of a width no grid size divides, and of no height
GridBoxes ==
  {[southwest |-> Coord(sw.lat, sw.lng),
    northeast |-> Coord(sw.lat + span.lat, sw.lng + span.lng)] :
     sw \in {Coord(10 * Degree, 20 * Degree), Coord(BelowPow2(14) - Degree \div 4, 30 * Degree)},
     span \in {Coord(Degree \div 2, Degree \div 2),
               Coord(Degree \div 2 + 2^(15 - Precision), Degree \div 4),
               Coord(Degree \div 4, Degree \div 2),
               Coord(7 * (Degree \div 32), 11 * (Degree \div 32)),
               Coord(3 * Degree, 5 * Degree + Degree \div 8),
               Coord(0, Degree)}}

GridGeocodeResponses ==
  [kind : {"data"}, status : {"OK"},
   results : {<<[wellFormed |-> TRUE, location |-> l, bounds |-> None]>> : l \in GridLocations}
             \cup {<<[wellFormed |-> TRUE, location |-> BaseCoords, bounds |-> Some(b)]>> :
                     b \in GridBoxes}]

\* the requests for a grid search, with every search intensity
GridBodies ==
  [query : {Some(QCafes)}, maxResults : {Some(GridThreshold + 1)},
   searchIntensity : {None, Some("low"), Some("medium"), Some("high"), Some("max")}]

InitGrid ==
  /\ pc = "request"
  /\ body \in GridBodies
  /\ googleApiKey = Some("key")
  /\ InitLocals

NextGrid ==
  \/ ServeReceive
  \/ \E r \in GridGeocodeResponses : GeocodeFetch(r)

SpecGrid == InitGrid /\ [][NextGrid]_vars

(***************************************************************************)
(* The specification of the geocoding and the partition of a grid search   *)
(* whose geocoding result carries bounds of any shape: the northeast       *)
(* corner north or south, east or west of the southwest corner, or level   *)
(* with it.                                                                *)
(***************************************************************************)
AnyBoxes ==
  {[southwest |-> Coord(10 * Degree, 20 * Degree),
    northeast |-> Coord(10 * Degree + dlat, 20 * Degree + dlng)] :
     dlat \in {0 - 11 * (Degree \div 32), 0, 11 * (Degree \div 32)},
     dlng \in {0 - 3 * Degree, 0, 7 * (Degree \div 32)}}

AnyBoxGeocodeResponses ==
  {[kind |-> "data", status |-> "OK",
    results |-> <<[wellFormed |-> TRUE, location |-> BaseCoords, bounds |-> Some(b)]>>] :
     b \in AnyBoxes}

NextBounds ==
  \/ ServeReceive
  \/ \E r \in AnyBoxGeocodeResponses : GeocodeFetch(r)

SpecBounds == InitGrid /\ [][NextBounds]_vars

(***************************************************************************)
(* The detail lookups one by one: a standard search for a few places,      *)
(* whose lookups resolve in any order with any outcome.                    *)
(***************************************************************************)
\* the requests for at most MaxLookups places
DetailBodies ==
  [query : {Some(QPizza)}, maxResults : {Some(1), Some(MaxLookups)}, searchIntensity : {None}]

InitDetails ==
  /\ pc = "request"
  /\ body \in DetailBodies
  /\ googleApiKey = Some("key")
  /\ InitLocals

NextDetails ==
  \/ ServeReceive
  \/ \E r \in StdAnswers : StdFetch(r)
  \/ \E n \in 1..MaxLookups, outcome \in DetailOutcomes : DetailFetch(n, outcome)
  \/ ServeRespond

SpecDetails == InitDetails /\ [][NextDetails]_vars

(***************************************************************************)
(* The specification of a grid request of nine tiles, against an upstream  *)
(* whose answer to a page request may take any course.                     *)
(***************************************************************************)
TileBodies ==
  [query : {Some(QCafes)}, maxResults : {Some(GridThreshold + 1)},
   searchIntensity : {Some("low")}]

\* the geocoding answers: the location, with bounds wide enough for a grid of
\* 3 x 3 tiles
TileGeocodeResponses ==
  {[kind |-> "data", status |-> "OK",
    results |-> <<[wellFormed |-> TRUE, location |-> BaseCoords, bounds |-> Some(b)]>>] :
     b \in GeoBoxes}

InitTile ==
  /\ pc = "request"
  /\ body \in TileBodies
  /\ googleApiKey = Some("key")
  /\ InitLocals

\* one page request of the k-th tile search of the batch, taking any course
TileFetchAny(k) ==
  /\ pc = "tiles"
  /\ k \in DOMAIN batch
  /\ batch[k].status = "running"
  /\ \E a \in AnyTileAnswers(grid.batchStart + k - 1, batch[k].pageCount, upstream) :
       TileAnswered(k, a)

NextTile ==
  \/ ServeReceive
  \/ \E r \in TileGeocodeResponses : GeocodeFetch(r)
  \/ \E k \in 1..BATCH_SIZE : TileFetchAny(k)
  \/ GridMergeBatch
  \/ GridNextBatch
  \/ \E pattern \in DetailPatterns : ServeDetails(pattern)

SpecTile == InitTile /\ [][NextTile]_vars

(***************************************************************************)
(* The specification of two grid requests of nine tiles that differ in the *)
(* values of the accounting counters only: next to the run of the code,    *)
(* the run in which the counters of one tile search (apiCalls,             *)
(* rawResultsCount, uniqueNewCount) hold other values than the code gave   *)
(* them when it resolves; up to the return of the grid search to serve.    *)
(***************************************************************************)
\* the counters of the k-th tile search of the batch, which has resolved, take
\* other values; no counter of the request did so before
Miscount(k) ==
  /\ pc = "tiles"
  /\ k \in DOMAIN batch
  /\ batch[k].status = "done"
  /\ \A j \in DOMAIN batch : batch[j].rawResultsCount = Len(batch[j].results)
  /\ \A n \in 1..Len(grid.tileLogs) : grid.tileLogs[n].rawResults = Len(tileRaw[n])
  /\ \E uniqueNewCount \in {0, batch[k].uniqueNewCount + 1} :
       batch' = [batch EXCEPT ![k].apiCalls = @ + 1, ![k].rawResultsCount = @ + 1,
                              ![k].uniqueNewCount = uniqueNewCount]
  /\ UNCHANGED <<pc, body, googleApiKey, resp, sent, std, stdCalls, srv, grid, completed,
                 upstream, tileRaw, tileCalls, thrown, gridReturn>>

NextSkew ==
  \/ ServeReceive
  \/ \E r \in TileGeocodeResponses : GeocodeFetch(r)
  \/ \E k \in 1..BATCH_SIZE : TileFetch(k)
  \/ \E k \in 1..BATCH_SIZE : Miscount(k)
  \/ GridMergeBatch
  \/ GridNextBatch

SpecSkew == InitTile /\ [][NextSkew]_vars

(***************************************************************************)
(* The specification of a request against an upstream that hands out a     *)
(* next-page token with every page, as long as it is asked: a standard     *)
(* search, or a grid search of nine tiles and its fallbacks.  Every call   *)
(* to the upstream returns or fails in the end (weak fairness of the       *)
(* steps).  A search that has issued MaxRequests page requests without     *)
(* ending is left alone.                                                   *)
(***************************************************************************)
InitLive ==
  /\ pc = "request"
  /\ body \in {[query |-> Some(QPizza), maxResults |-> Some(GridThreshold),
                searchIntensity |-> None],
               [query |-> Some(QPizza), maxResults |-> Some(GridThreshold + 1),
                searchIntensity |-> Some("medium")]}
  /\ googleApiKey = Some("key")
  /\ InitLocals

\* one page request of the standard search: a full page (a page of one result,
\* the first time) with a token, no results, a refusal, or a fetch that rejects
StdFetchStubborn ==
  /\ std.active
  /\ std.requests < MaxRequests
  /\ \E r \in [kind : {"data"}, status : {"OK"},
               results : {StdPage(std.pageCount, n) :
                            n \in {MaxPageLen} \cup (IF std.pageCount = 0 THEN {1} ELSE {})},
               next_page_token : {TRUE}]
              \cup [kind : {"data"}, status : {"ZERO_RESULTS", "REQUEST_DENIED"},
                    results : {<<>>}, next_page_token : {TRUE}]
              \cup {[kind |-> "throw"]} : StdAnswered(r)

\* one page request of the k-th tile search of the batch: a page with a token
\* or, of the search of the first tile, INVALID_REQUEST at every attempt and,
\* of that of the second tile, an OK answer without results that carries a token
TileFetchStubborn(k) ==
  /\ pc = "tiles"
  /\ k \in DOMAIN batch
  /\ batch[k].status = "running"
  /\ batch[k].apiCalls < MaxRequests
  /\ LET t == grid.batchStart + k - 1
         token == Some(PageToken(t, batch[k].pageCount))
     IN \E answers \in
            {<<OkData(TilePage(t, batch[k].pageCount, upstream.pageLen), token)>>}
            \cup (IF t = 1 THEN {<<StatusData("INVALID_REQUEST"), StatusData("INVALID_REQUEST"),
                                   StatusData("INVALID_REQUEST")>>}
                  ELSE IF t = 2 THEN {<<OkData(<<>>, token)>>}
                  ELSE {}) :
          TileAnswered(k, [answers |-> answers, fault |-> 0])

NextLive ==
  \/ ServeReceive
  \/ StdFetchStubborn
  \/ \E r \in {g \in GeocodeResponses :
                 g.kind = "data" =>
                   (g.results = <<>> \/ (g.results[1].wellFormed /\ g.results[1].bounds = None))} :
       GeocodeFetch(r)
  \/ \E k \in 1..BATCH_SIZE : TileFetchStubborn(k)
  \/ GridMergeBatch
  \/ GridNextBatch
  \/ \E pattern \in DetailPatterns : ServeDetails(pattern)

\* a search has issued MaxRequests page requests without ending: the standard
\* search, or every tile search of the batch that has not resolved
LeftAlone ==
  \/ pc = "std" /\ std.requests >= MaxRequests
  \/ /\ pc = "tiles"
     /\ \E k \in DOMAIN batch : batch[k].status = "running"
     /\ \A k \in DOMAIN batch : batch[k].status = "running" => batch[k].apiCalls >= MaxRequests

\* weak fairness of the steps: a step stays possible until the response is sent
\* or a search is left alone, and a run in which a step stays possible takes
\* steps again and again
Fairness == []<>(pc = "done" \/ LeftAlone) \/ []<><<NextLive>>_vars

SpecLive == InitLive /\ [][NextLive]_vars /\ Fairness

(***************************************************************************)
(* The specification of the derivation of the location phrase and the      *)
(* search term: a grid request with any query of at most MaxQueryLen       *)
(* characters (letters, among them those of "in", a blank, a comma and a   *)
(* character that is special in a regular expression), whose geocoding     *)
(* requests find nothing.                                                  *)
(***************************************************************************)
QueryChars == {"a", "i", "n", " ", ",", "("}

ParseQueries == UNION {[1..len -> QueryChars] : len \in 1..MaxQueryLen}

ParseBodies ==
  [query : {Some(q) : q \in ParseQueries}, maxResults : {Some(GridThreshold + 1)},
   searchIntensity : {None}]

InitParse ==
  /\ pc = "request"
  /\ body \in ParseBodies
  /\ googleApiKey = Some("key")
  /\ InitLocals

NextParse ==
  \/ ServeReceive
  \/ GeocodeFetch([kind |-> "data", status |-> "ZERO_RESULTS", results |-> <<>>])

SpecParse == InitParse /\ [][NextParse]_vars

(***************************************************************************)
(* The claims.                                                             *)
(***************************************************************************)
\* the request as its sender wrote it
Budget == IF body.maxResults = None THEN 60 ELSE body.maxResults[1]

HasQuery == body.query # None /\ body.query # Some(<<>>)

HasKey == googleApiKey # None /\ googleApiKey # Some("")

NothingSent == sent.geocode = 0 /\ sent.search = 0 /\ sent.tile = 0 /\ sent.details = 0

\* the grid search merged at least one batch of tile searches
Merged == pc \in {"delay", "details", "done"} /\ grid.active /\ Len(grid.tileLogs) > 0

\* the raw results of the first n tiles, in grid order
RECURSIVE RawUpTo(_)
RawUpTo(n) == IF n = 0 THEN <<>> ELSE RawUpTo(n - 1) \o tileRaw[n]

\* the places of raw from element i on whose identifier is not in seen, each
\* at its first occurrence, appended to acc
RECURSIVE FirstSeenFrom(_, _, _, _)
FirstSeenFrom(raw, i, seen, acc) ==
  IF i > Len(raw) THEN acc
  ELSE IF raw[i].place_id \in seen THEN FirstSeenFrom(raw, i + 1, seen, acc)
  ELSE FirstSeenFrom(raw, i + 1, seen \cup {raw[i].place_id}, Append(acc, raw[i]))

FirstSeen(raw) == FirstSeenFrom(raw, 1, {}, <<>>)

PlaceIds(places) == {places[i].place_id : i \in 1..Len(places)}

\* C1: a 200 response never carries more than maxResults records, whether the
\* request ran the standard search, the grid search or the fallback of the
\* grid search.
C1_BudgetRespect == resp.status = 200 => Len(resp.results) <= Budget

\* the grid search merged more unique places than the budget and the response
\* carries exactly the budget
C1_Witness ==
  /\ resp.status = 200
  /\ grid.active
  /\ Len(grid.tileLogs) > 0
  /\ Len(grid.allResults) > Budget
  /\ Len(resp.results) = Budget

\* C2: after each merge, the merged list holds every identifier returned by a
\* merged tile exactly once, as the instance of the earliest tile in grid order
\* (earliest position in it), and no two of its entries share an identifier;
\* the same holds of the list performGridSearch returns.
C2_DedupFirstSeenWins ==
  Merged =>
    /\ Cardinality(PlaceIds(grid.allResults)) = Len(grid.allResults)
    /\ Range(grid.allResults) = Range(FirstSeen(RawUpTo(Len(grid.tileLogs))))
    /\ gridReturn # None =>
         Cardinality(PlaceIds(gridReturn[1].results)) = Len(gridReturn[1].results)

\* a place came back from two tiles, and twice from one tile, and was merged
C2_Witness ==
  /\ Merged
  /\ pc = "details"
  /\ PlaceIds(tileRaw[1]) \cap PlaceIds(tileRaw[2]) # {}
  /\ \E n \in 1..Len(tileRaw) : Cardinality(PlaceIds(tileRaw[n])) < Len(tileRaw[n])
  /\ Len(grid.allResults) < grid.rawResultsCount

\* C3: after each merge, the merged list is the raw results of the merged
\* tiles taken in grid order (within a tile in response order), each place at
\* its first occurrence: its order does not depend on the order in which the
\* tile searches of a batch completed.
C3_DeterministicMergeOrder ==
  Merged =>
    /\ grid.allResults = FirstSeen(RawUpTo(Len(grid.tileLogs)))
    /\ gridReturn # None =>
         gridReturn[1].results = Slice(FirstSeen(RawUpTo(Len(grid.tileLogs))), Budget)

\* a batch whose tile searches completed in the reverse of the grid order was merged
C3_Witness ==
  /\ Merged
  /\ completed = <<4, 3, 2, 1>>
  /\ Len(grid.allResults) > 0
  /\ Len(grid.allResults) < grid.rawResultsCount

\* C4 (as claimed): a valid request with maxResults > 60 is always answered
\* with status 200, whatever error occurs in the grid pipeline.
C4_GridNeverHardFails ==
  (pc = "done" /\ HasQuery /\ HasKey /\ Budget > 60) => resp.status = 200

\* C5 (as claimed): performStandardSearch never raises because of an upstream
\* status; the only errors it lets through are those of the transport.
C5_StandardSearchAbsorbsStatus ==
  \A i \in 1..Len(thrown) :
    thrown[i].site \in {"serve", "gridNoGeo", "gridCatch"} => thrown[i].error = FetchError

\* C6 (as claimed): when every geocoding attempt failed, performGridSearch
\* returns the results of the standard search for the original query, has
\* issued no tile search, reports tilesCreated = 0 and a non-empty error.
C6_UnresolvableLocationFallback ==
  (gridReturn # None /\ Len(grid.geocoded) = 2 /\ grid.tiles = <<>>
     /\ \A i \in 1..Len(thrown) : thrown[i].site \notin {"geocode", "geometry"}) =>
    /\ gridReturn[1].results = stdCalls[Len(stdCalls)].results
    /\ stdCalls[Len(stdCalls)].query = body.query[1]
    /\ sent.tile = 0
    /\ gridReturn[1].meta.tilesCreated = 0
    /\ "error" \in DOMAIN gridReturn[1].meta
    /\ gridReturn[1].meta.error # <<>>

C8_StrategySelection ==
  /\ Budget <= 60 => sent.geocode = 0 /\ sent.tile = 0
  /\ (Budget > 60 /\ (sent.search > 0 \/ sent.tile > 0)) => sent.geocode > 0

\* a request without maxResults was answered after more than one page of the
\* standard search
C8_Witness ==
  /\ body.maxResults = None
  /\ pc = "done"
  /\ resp.status = 200
  /\ sent.search > 1

\* C9: a request whose query is missing or empty is answered with status 400
\* and sends no upstream request, with or without a credential.
C9_InputInvalid ==
  ~HasQuery =>
    /\ pc \in {"request", "done"}
    /\ NothingSent
    /\ pc = "done" => resp.status = 400

\* an empty query was rejected while no credential was configured
C9_Witness ==
  /\ pc = "done"
  /\ body.query = Some(<<>>)
  /\ googleApiKey = None
  /\ resp.status = 400

\* C10: a request with a non-empty query and no credential is answered with
\* status 500 and sends no upstream request.
C10_CredentialMissing ==
  (HasQuery /\ ~HasKey) =>
    /\ pc \in {"request", "done"}
    /\ NothingSent
    /\ pc = "done" => resp.status = 500

\* a grid request was rejected for an empty credential
C10_Witness ==
  /\ pc = "done"
  /\ HasQuery
  /\ Budget > 60
  /\ googleApiKey = Some("")
  /\ resp.status = 500

\* the tile of row i and column j (0-based) of the grid
TileAt(i, j) == grid.tiles[i * grid.gridSize + j + 1]

Partitioned == grid.active /\ grid.tiles # <<>>

Dist(a, b) == IF a >= b THEN a - b ELSE b - a

C12_GridDensity ==
  (Partitioned /\ searchIntensity \in {"low", "medium", "high"}) =>
    LET base == CASE searchIntensity = "low" -> 2
                  [] searchIntensity = "medium" -> 3
                  [] searchIntensity = "high" -> 4
        sw == grid.southwest[1]
        ne == grid.northeast[1]
        span == IF grid.bounds = None THEN Degree \div 2
                ELSE Max(grid.bounds[1].northeast.lat - grid.bounds[1].southwest.lat,
                         grid.bounds[1].northeast.lng - grid.bounds[1].southwest.lng)
    IN /\ grid.gridSize = (IF 2 * span > Degree THEN base + 1 ELSE base)
       /\ grid.gridSize <= 6
       /\ Len(grid.tiles) = grid.gridSize * grid.gridSize

\* the detail lookups of the request have started
LookedUp == pc \in {"details", "done"} /\ "outcomes" \in DOMAIN srv

\* a property of a record of the response; an undefined property is None
Field(rec, key) == IF key \in DOMAIN rec THEN rec[key] ELSE None

\* C13 (as claimed): the record of every place whose detail lookup failed (a
\* non-OK status, no result, an error thrown) has no reviews, and its id, name,
\* address, phone, rating, totalReviews (0 when the summary has none), status,
\* website and priceLevel are those of the summary of the search.
C13_DetailDegradation ==
  (LookedUp /\ pc = "done") =>
    \A n \in 1..Len(srv.allResults) :
      srv.outcomes[n] \in {"noresult", "status", "throw"} =>
        LET rec == resp.results[n]
            place == Summary(srv.allResults[n])
        IN /\ Field(rec, "reviews") = <<>>
           /\ Field(rec, "id") = place.place_id
           /\ Field(rec, "name") = place.name
           /\ Field(rec, "address") = place.formatted_address
           /\ Field(rec, "phone") = place.formatted_phone_number
           /\ Field(rec, "rating") = Or(place.rating, 0)
           /\ Field(rec, "totalReviews") = Or(place.user_ratings_total, 0)
           /\ Field(rec, "status") = place.business_status
           /\ Field(rec, "website") = place.website
           /\ Field(rec, "priceLevel") = place.price_level

\* C14: each place of the merged list is looked up exactly once; the response
\* has one record per place, in the order of the merged list, whatever the
\* order in which the lookups resolved and whichever of them failed; a request
\* whose lookups started is answered with status 200.
C14_DetailEnrichmentTotal ==
  LookedUp =>
    /\ sent.details = Len(srv.order)
    /\ Cardinality(Range(srv.order)) = Len(srv.order)
    /\ \A n \in 1..Len(srv.allResults) :
         (srv.outcomes[n] = Pending) = (n \notin Range(srv.order))
    /\ pc = "done" =>
         /\ resp.status = 200
         /\ sent.details = Len(srv.allResults)
         /\ Len(resp.results) = Len(srv.allResults)
         /\ \A n \in 1..Len(srv.allResults) :
              /\ resp.results[n].id = srv.allResults[n].place_id
              /\ resp.results[n] = DetailRecord(srv.allResults[n], srv.outcomes[n])

\* three lookups resolved out of order, the first two to resolve failing
C14_Witness ==
  /\ LookedUp
  /\ pc = "done"
  /\ srv.order = <<3, 1, 2>>
  /\ srv.outcomes = <<"status", "ok", "throw">>
  /\ resp.status = 200

\* the tile searches that have issued a request, by tile number in grid order
Started == {n \in 1..Len(tileCalls) : tileCalls[n] # <<>>}

\* the tile searches in flight: called and not resolved yet
InFlight == {k \in 1..Len(batch) : batch[k].status = "running"}

\* C15 (batching): the tiles run in consecutive batches of 4 in grid order,
\* the remainder in the last batch; at most 4 tile searches are in flight at
\* any moment; and a tile search of a batch has issued a request only when
\* every tile of the batches before it has completed and been merged.
C15_Batching ==
  (grid.active /\ grid.tiles # <<>>) =>
    /\ grid.batchStart % 4 = 0
    /\ Len(batch) = Min(4, Len(grid.tiles) - grid.batchStart)
    /\ \A k \in 1..Len(batch) : batch[k].tile = grid.tiles[grid.batchStart + k]
    /\ Cardinality(InFlight) <= 4
    /\ \A n \in Started :
         /\ n <= grid.batchStart + Len(batch)
         /\ Len(grid.tileLogs) >= 4 * ((n - 1) \div 4)
    /\ \A n \in 1..Len(grid.tileLogs) : grid.tileLogs[n].tileIndex = grid.tiles[n].tileIndex

\* nine tiles: the third batch is the ninth tile alone, searching after the
\* first eight have been merged
C15_Witness ==
  /\ grid.active
  /\ Len(grid.tiles) = 9
  /\ grid.batchStart = 8
  /\ Len(batch) = 1
  /\ 9 \in Started
  /\ Len(grid.tileLogs) = 8

\* C16 (early termination): once a merge has brought the count of unique
\* results to maxResults or more, the grid search has returned: no tile search
\* beyond the merged ones has issued a request, none is running and no delay
\* between batches is taken.  While the count is below maxResults and tiles
\* remain, the grid search has not returned: its batch is running or the
\* delay before the next batch is, and a delay is only taken then.
C16_EarlyTermination ==
  (grid.active /\ grid.tiles # <<>>) =>
    /\ (grid.tileLogs # <<>> /\ Len(grid.allResults) >= Budget) =>
         /\ pc \notin {"tiles", "delay"}
         /\ gridReturn # None
         /\ Started \subseteq 1..Len(grid.tileLogs)
    /\ (Len(grid.allResults) < Budget /\ Len(grid.tileLogs) < Len(grid.tiles)) =>
         /\ pc \in {"tiles", "delay"}
         /\ gridReturn = None
    /\ pc = "tiles" => Len(grid.tileLogs) = grid.batchStart /\ Len(batch) > 0
    /\ pc = "delay" =>
         /\ Len(grid.allResults) < Budget
         /\ Len(grid.tileLogs) = grid.batchStart + 4
         /\ Len(grid.tileLogs) < Len(grid.tiles)

\* the count reached maxResults with tiles left: the search returned, and no
\* tile after the merged ones was searched
C16_Witness ==
  /\ grid.active
  /\ gridReturn # None
  /\ grid.tileLogs # <<>>
  /\ Len(grid.allResults) >= Budget
  /\ Len(grid.tileLogs) < Len(grid.tiles)
  /\ Started = 1..Len(grid.tileLogs)

\* the upstream answers of tile search n that carried results: the calls of
\* fetchWithRetry that returned data with status OK
OkCalls(n) == {c \in 1..Len(tileCalls[n]) : tileCalls[n][c].status = Some("OK")}

\* C17 (page-depth bound): a tile search appends the results of at most 3
\* pages to its raw list, whatever the upstream answers: its raw list is no
\* longer than 3 pages, and it requests no page after the third appended one,
\* token or not.
C17_PageDepthBound ==
  /\ \A n \in 1..Len(tileRaw) :
       /\ Len(tileRaw[n]) <= 3 * upstream.pageLen
       /\ Cardinality(OkCalls(n)) <= 3
       /\ Len(tileCalls[n]) <= 3
  /\ \A k \in 1..Len(batch) : batch[k].pageCount <= 3

\* a tile search that ended with three pages appended, the third of which
\* carried a token
C17_Witness ==
  \E k \in 1..Len(batch) :
    /\ batch[k].status = "done"
    /\ batch[k].pageCount = 3
    /\ batch[k].nextPageToken # None
    /\ Len(tileRaw[grid.batchStart + k]) = 3 * upstream.pageLen

\* the calls of fetchWithRetry that received INVALID_REQUEST on every fetch
\* until they gave up, as pairs of tile number and call number
GaveUpOnInvalidRequest ==
  {nc \in UNION {{<<n, c>> : c \in 1..Len(tileCalls[n])} : n \in 1..Len(tileCalls)} :
     LET call == tileCalls[nc[1]][nc[2]]
     IN /\ call.status = Some("INVALID_REQUEST")
        /\ \A i \in 1..call.fetches : call.received[i] = "INVALID_REQUEST"}

\* C18 (retry backoff): a page request that keeps receiving INVALID_REQUEST
\* waits 1 s, then 2 s, then 4 s between its attempts before it gives up.
C18_RetryBackoff ==
  \A nc \in GaveUpOnInvalidRequest :
    tileCalls[nc[1]][nc[2]].waits = <<1000, 2000, 4000>>

\* C19 (standard search page cap): one invocation of performStandardSearch
\* issues at most 3 page requests.
C19_StandardSearchPageCap ==
  /\ \A i \in 1..Len(stdCalls) : stdCalls[i].requests <= 3
  /\ std.active => std.requests <= 3

\* C20 (call accounting): in every response with results, apiCallsUsed minus
\* the detail lookups is the number of requests sent for geocoding, for the
\* pages of the tile searches (retries included) and for the pages of the
\* standard search.
C20_CallAccounting ==
  (pc = "done" /\ resp.status = 200) =>
    resp.apiCallsUsed - sent.details = sent.geocode + sent.tile + sent.search

\* the reviews the details endpoint returns for the n-th place of the request
UpstreamReviews(n) == Or(DetailsOf(srv.allResults[n].place_id).reviews, <<>>)

\* C21 (review cap): every record of a response carries at most 10 reviews,
\* and the record of a lookup that returned more than 10 reviews carries the
\* first 10 of them, in the order of the upstream.
C21_ReviewCap ==
  (LookedUp /\ pc = "done") =>
    \A n \in 1..Len(resp.results) :
      /\ Len(resp.results[n].reviews) <= 10
      /\ (srv.outcomes[n] = "ok" /\ Len(UpstreamReviews(n)) > 10) =>
           /\ Len(resp.results[n].reviews) = 10
           /\ \A i \in 1..10 :
                /\ resp.results[n].reviews[i].author = UpstreamReviews(n)[i].author_name
                /\ resp.results[n].reviews[i].text = UpstreamReviews(n)[i].text
                /\ resp.results[n].reviews[i].rating = UpstreamReviews(n)[i].rating

\* a lookup returned 12 reviews, and its record carries 10
C21_Witness ==
  /\ LookedUp
  /\ pc = "done"
  /\ \E n \in 1..Len(resp.results) :
       /\ srv.outcomes[n] = "ok"
       /\ Len(UpstreamReviews(n)) = 12
       /\ Len(resp.results[n].reviews) = 10

\* the calls of fetchWithRetry of the request, as pairs of tile number and
\* call number
FetchCalls == UNION {{<<n, c>> : c \in 1..Len(tileCalls[n])} : n \in 1..Len(tileCalls)}

\* C22 (retry bound): a call of fetchWithRetry makes at most 3 fetches,
\* whatever mix of INVALID_REQUEST answers and rejected fetches it meets; it
\* ends by returning the answer of its last fetch, or by throwing when its
\* third fetch rejects; it never ends without either.
C22_RetryBound ==
  \A nc \in FetchCalls :
    LET call == tileCalls[nc[1]][nc[2]]
    IN /\ call.fetches \in 1..3
       /\ call.kind \in {"data", "throw"}
       /\ call.kind = "data" => call.status = Some(call.received[call.fetches])
       /\ call.kind = "throw" => call.fetches = 3 /\ call.received[3] = "throw"
       /\ \A i \in 1..(call.fetches - 1) : call.received[i] \in {"INVALID_REQUEST", "throw"}

\* a call that met both kinds of transient answer and threw on its third fetch
C22_Witness ==
  \E nc \in FetchCalls :
    LET call == tileCalls[nc[1]][nc[2]]
    IN /\ call.kind = "throw"
       /\ call.received = <<"INVALID_REQUEST", "throw", "throw">>

\* a page response that is not OK, or OK without results
Quiet(call) == call.kind = "data" /\ (call.status # Some("OK") \/ call.results = 0)

\* the tile search of tile n has resolved
Resolved(n) ==
  \/ n <= grid.batchStart
  \/ n - grid.batchStart \in 1..Len(batch) /\ batch[n - grid.batchStart].status = "done"

\* C23 (a non-transient status stops the tile quietly): a page response with
\* status ZERO_RESULTS or another non-OK status, or OK without results, is the
\* last page request of its tile; the tile search resolves, keeps the results
\* of the pages before and hands them to the merge; nothing is thrown.
C23_QuietStop ==
  \A nc \in FetchCalls :
    LET n == nc[1]
        c == nc[2]
    IN Quiet(tileCalls[n][c]) =>
         /\ c = Len(tileCalls[n])
         /\ Resolved(n)
         /\ Len(tileRaw[n]) = (c - 1) * upstream.pageLen
         /\ n - grid.batchStart \in 1..Len(batch) =>
              batch[n - grid.batchStart].results = tileRaw[n]
         /\ n <= Len(grid.tileLogs) => grid.tileLogs[n].rawResults = Len(tileRaw[n])
         /\ thrown = <<>>

\* a tile whose second page came back with ZERO_RESULTS: merged with the
\* results of its first page
C23_Witness ==
  \E n \in 1..Len(tileCalls) :
    /\ n <= Len(grid.tileLogs)
    /\ Len(tileCalls[n]) = 2
    /\ tileCalls[n][2].status = Some("ZERO_RESULTS")
    /\ Len(tileRaw[n]) = upstream.pageLen
    /\ grid.tileLogs[n].rawResults = upstream.pageLen

\* a call of fetchWithRetry that used up its attempts: INVALID_REQUEST on the
\* last one too, or a rejected fetch on the last one
Exhausted(call) ==
  call.fetches = 3 /\ (call.kind = "throw" \/ call.status = Some("INVALID_REQUEST"))

\* C24 (tile failure isolation): a tile search whose page request used up its
\* retries resolves, with the raw results of the pages it collected before;
\* these reach the merge; no catch block is entered and no standard search
\* runs; every batch is merged whole, and the grid search returns only when
\* all its tiles are merged or the budget is met.
C24_TileFailureIsolation ==
  (\E nc \in FetchCalls : Exhausted(tileCalls[nc[1]][nc[2]])) =>
    /\ \A nc \in FetchCalls :
         LET n == nc[1]
             c == nc[2]
         IN Exhausted(tileCalls[n][c]) =>
              /\ c = Len(tileCalls[n])
              /\ Resolved(n)
              /\ Len(tileRaw[n]) = (c - 1) * upstream.pageLen
              /\ n - grid.batchStart \in 1..Len(batch) =>
                   batch[n - grid.batchStart].results = tileRaw[n]
    /\ thrown = <<>>
    /\ stdCalls = <<>>
    /\ \A n \in 1..Len(grid.tileLogs) :
         /\ grid.tileLogs[n].rawResults = Len(tileRaw[n])
         /\ PlaceIds(tileRaw[n]) \subseteq PlaceIds(grid.allResults)
    /\ pc # "tiles" => Len(grid.tileLogs) = grid.batchStart + Len(batch)
    /\ gridReturn # None =>
         /\ Len(grid.tileLogs) = Len(grid.tiles) \/ Len(grid.allResults) >= Budget
         /\ gridReturn[1].meta.tilesProcessed = Len(grid.tileLogs)
         /\ "error" \notin DOMAIN gridReturn[1].meta

\* the second page request of the second tile used up its retries on rejected
\* fetches; all nine tiles were merged, the second with its first page, and
\* the grid search returned
C24_Witness ==
  /\ grid.active
  /\ gridReturn # None
  /\ Len(grid.tileLogs) = 9
  /\ Len(tileCalls[2]) = 2
  /\ tileCalls[2][2].kind = "throw"
  /\ grid.tileLogs[2].rawResults = upstream.pageLen
  /\ \A n \in 1..9 : grid.tileLogs[n].rawResults > 0

\* the shared set of seen identifiers; empty before the grid search has one
SeenIds == IF grid.active THEN grid.uniquePlaceIds ELSE {}

\* C25 (the seen-set is read-only during the fan-out): a step taken while a
\* tile search of the batch is in flight leaves the shared set unchanged; the
\* set changes only in the step that merges a batch all of whose tile
\* searches have resolved, and then by the identifiers of that batch.
C25_SeenSetReadOnly ==
  [][/\ (pc = "tiles" /\ InFlight # {}) => SeenIds' = SeenIds
     /\ SeenIds' # SeenIds =>
          /\ pc = "tiles"
          /\ InFlight = {}
          /\ pc' # "tiles"
          /\ Len(grid'.tileLogs) = Len(grid.tileLogs) + Len(batch)
          /\ SeenIds' = SeenIds \cup
                UNION {PlaceIds(batch[k].results) : k \in 1..Len(batch)}]_vars

\* a tile search of the second batch is in flight after another of that batch
\* resolved with results, and the set holds the identifiers of the first
\* batch only
C25_Witness ==
  /\ pc = "tiles"
  /\ grid.batchStart = 4
  /\ InFlight # {}
  /\ \E k \in 1..Len(batch) : batch[k].status = "done" /\ batch[k].results # <<>>
  /\ grid.uniquePlaceIds = PlaceIds(RawUpTo(4))
  /\ grid.uniquePlaceIds # PlaceIds(RawUpTo(8))

\* C26 (page protocol within a tile): the first page request of a tile
\* carries no token and waits for nothing; every later one follows a response
\* with status OK and a token, carries that token, and is preceded by the
\* delay of 2.2 s.
C26_PageProtocol ==
  \A nc \in FetchCalls :
    LET n == nc[1]
        c == nc[2]
        call == tileCalls[n][c]
    IN IF c = 1
         THEN call.pagetoken = None /\ call.delay = 0
       ELSE /\ tileCalls[n][c - 1].kind = "data"
            /\ tileCalls[n][c - 1].status = Some("OK")
            /\ tileCalls[n][c - 1].token # None
            /\ call.pagetoken = tileCalls[n][c - 1].token
            /\ call.delay = 2200

\* a tile search that requested its three pages, the second and the third
\* with the token of the page before, while another ended on an OK page
\* without results that carried a token
C26_Witness ==
  /\ \E n \in 1..Len(tileCalls) :
       /\ Len(tileCalls[n]) = 3
       /\ tileCalls[n][2].pagetoken = Some(PageToken(n - 1, 0))
       /\ tileCalls[n][3].pagetoken = Some(PageToken(n - 1, 1))
  /\ \E n \in 1..Len(tileCalls) :
       /\ tileCalls[n] # <<>>
       /\ tileCalls[n][Len(tileCalls[n])].status = Some("OK")
       /\ tileCalls[n][Len(tileCalls[n])].results = 0
       /\ tileCalls[n][Len(tileCalls[n])].token # None
       /\ Resolved(n)

\* C27 (geocoding resolution): the phrase is geocoded as it is, then with the
\* country appended; the second request is made only after the first was
\* answered with a status that is not OK or with no result; at most 2
\* requests are made; and the calls accounted, before any tile is merged, are
\* one per request made.
C27_GeocodingResolution ==
  grid.active =>
    /\ Len(grid.geocoded) = sent.geocode
    /\ sent.geocode <= 2
    /\ Len(grid.geocoded) >= 1 => grid.geocoded[1] = grid.baseLocation
    /\ Len(grid.geocoded) >= 2 =>
         /\ grid.geocoded[2] = grid.baseLocation \o <<",", " ", "India">>
         /\ grid.answers[1] = "unusable"
    /\ grid.tileLogs = <<>> => grid.apiCalls = sent.geocode

\* C28 (well-formed tiles): whatever the bounds of the geocoding result, the
\* southwest corner of every tile is not north or east of its northeast
\* corner.
C28_WellFormedTiles ==
  (grid.active /\ grid.tiles # <<>>) =>
    \A n \in 1..Len(grid.tiles) :
      /\ grid.tiles[n].swLat <= grid.tiles[n].neLat
      /\ grid.tiles[n].swLng <= grid.tiles[n].neLng

\* C29 (merge stops at the budget): the merged list of a grid search never
\* holds more than maxResults places, and the uniqueResults of the meta a
\* grid search returns after merging tiles is at most maxResults and is the
\* number of results it returns.
C29_MergeStopsAtBudget ==
  (grid.active /\ grid.tiles # <<>>) =>
    /\ Len(grid.allResults) <= maxResults
    /\ (gridReturn # None /\ "error" \notin DOMAIN gridReturn[1].meta) =>
         /\ gridReturn[1].meta.uniqueResults <= maxResults
         /\ gridReturn[1].meta.uniqueResults = Len(gridReturn[1].results)

\* C30 (no mid-batch cancellation): outside the fan-out no tile search is
\* running and every tile search that issued a request has its one log, in
\* grid order; during the fan-out the tile searches without a log are those of
\* the current batch.  The tilesProcessed of a returned grid search is the
\* number of tile searches that issued a request, is at most tilesCreated,
\* and is tilesCreated or a multiple of 4.
C30_NoMidBatchCancellation ==
  (grid.active /\ grid.tiles # <<>>) =>
    /\ pc # "tiles" => InFlight = {} /\ Started = 1..Len(grid.tileLogs)
    /\ pc = "tiles" =>
         Started \ (1..Len(grid.tileLogs)) \subseteq
           (grid.batchStart + 1)..(grid.batchStart + Len(batch))
    /\ \A n \in 1..Len(grid.tileLogs) : grid.tileLogs[n].tileIndex = grid.tiles[n].tileIndex
    /\ (gridReturn # None /\ "error" \notin DOMAIN gridReturn[1].meta) =>
         LET meta == gridReturn[1].meta
         IN /\ meta.tilesProcessed = Cardinality(Started)
            /\ meta.tilesProcessed = Len(meta.tileLogs)
            /\ meta.tilesProcessed <= meta.tilesCreated
            /\ meta.tilesProcessed = meta.tilesCreated \/ meta.tilesProcessed % BATCH_SIZE = 0

\* a grid search of nine tiles returned after its first batch: the budget was
\* reached by the merge of four tile searches, each with its log
C30_Witness ==
  /\ grid.active
  /\ gridReturn # None
  /\ gridReturn[1].meta.tilesCreated = 9
  /\ gridReturn[1].meta.tilesProcessed = 4
  /\ Len(gridReturn[1].meta.tileLogs) = 4
  /\ Len(grid.allResults) > maxResults

\* C31 (location pattern priority): the location phrase is what the first
\* matching pattern captured, the 'in' pattern before the comma pattern: the
\* first group, followed by ", " and the second where there is one; only a
\* query that matches neither has its last two words taken, if it has more
\* than two, and is the location phrase itself otherwise.
C31_LocationPatternPriority ==
  grid.active =>
    LET m1 == InMatch(query)
        m2 == CommaMatch(query)
    IN /\ (m1.matched /\ m1.g2 = None) => grid.baseLocation = m1.g1
       /\ (m1.matched /\ m1.g2 # None) => grid.baseLocation = CommaJoin(m1.g1, m1.g2[1])
       /\ (~m1.matched /\ m2.matched) => grid.baseLocation = CommaJoin(m2.g1, m2.g2[1])
       /\ (~m1.matched /\ ~m2.matched /\ WordCount(query) > 2) =>
            grid.baseLocation = SubSeq(query, LastWordsStart(query, 2) + 1, Len(query))
       /\ (~m1.matched /\ ~m2.matched /\ WordCount(query) <= 2) =>
            grid.baseLocation = query

\* a word: one or more characters, none of them a blank or a comma
IsWord(w) == w # <<>> /\ \A i \in 1..Len(w) : w[i] \notin {" ", ","}

\* C32 (search-term derivation): for a query TERM in LOCATION of two words
\* the search term is TERM, the location phrase is LOCATION and the geocoding
\* requests start with LOCATION; the search term of every grid search is a
\* non-empty string, and one of fewer than 2 characters is the first token of
\* the query.
C32_SearchTermDerivation ==
  grid.active =>
    /\ \A k \in 1..Len(query) :
         LET term == SubSeq(query, 1, k)
             loc == SubSeq(query, k + 5, Len(query))
         IN (IsWord(term) /\ IsWord(loc) /\ query = term \o <<" ", "i", "n", " ">> \o loc) =>
              /\ grid.searchTerm = term
              /\ grid.baseLocation = loc
              /\ grid.geocoded # <<>> => grid.geocoded[1] = loc
    /\ grid.searchTerm # <<>>
    /\ Len(grid.searchTerm) < 2 => grid.searchTerm = FirstToken(query)

\* the words of q: its maximal runs of characters other than a blank
TokenCount(q) == Cardinality({i \in 1..Len(q) : q[i] # " " /\ (i = 1 \/ q[i - 1] = " ")})

\* neither pattern matches the query
Unparseable == ~InMatch(query).matched /\ ~CommaMatch(query).matched

PagingOver(n) ==
  LET calls == tileCalls[n]
      last == calls[Len(calls)]
  IN /\ calls # <<>>
     /\ \/ last.kind = "throw"
        \/ Quiet(last)
        \/ last.token = None
        \/ Cardinality({c \in 1..Len(calls) : calls[c].status = Some("OK") /\ calls[c].results > 0})
              >= MAX_PAGES_PER_TILE

\* the counters of a tile search hold other values than the code gave them
Miscounted ==
  \/ \E j \in DOMAIN batch : batch[j].rawResultsCount # Len(batch[j].results)
  \/ \E n \in 1..Len(grid.tileLogs) : grid.tileLogs[n].rawResults # Len(tileRaw[n])

\* C34 (accounting does not steer the search): whatever values the
\* accounting counters hold, the control path and the results are those the
\* upstream responses determine: a tile search has resolved exactly when its
\* responses end its page loop; the merged list is the raw results of the
\* merged tiles, each place at its first occurrence; the grid search has
\* returned exactly when all tiles are merged or the merged list has reached
\* maxResults, and returns the first maxResults places of that list.
C34_AccountingDoesNotSteer ==
  (grid.active /\ grid.tiles # <<>>) =>
    /\ pc = "tiles" =>
         \A k \in DOMAIN batch :
           batch[k].status = "done" <=> PagingOver(grid.batchStart + k)
    /\ pc = "tiles" => Len(grid.tileLogs) = grid.batchStart
    /\ pc # "tiles" =>
         LET merged == FirstSeen(RawUpTo(Len(grid.tileLogs)))
         IN /\ Len(grid.tileLogs) = grid.batchStart + Len(batch)
            /\ grid.allResults = merged
            /\ gridReturn # None <=>
                 (Len(grid.tileLogs) = Len(grid.tiles) \/ Len(merged) >= Budget)
            /\ gridReturn # None => gridReturn[1].results = Slice(merged, Budget)
            /\ gridReturn # None => srv.allResults = Slice(merged, Budget)

\* the first tile search found places and its counter of new places was set
\* to 0 afterwards; the grid search returned
C34_Witness ==
  /\ grid.active
  /\ gridReturn # None
  /\ Miscounted
  /\ tileRaw[1] # <<>>
  /\ grid.tileLogs[1].uniqueNew = 0
  /\ gridReturn[1].results # <<>>

\* the sums of the rawResults and of the uniqueNew of the first n tile logs
RECURSIVE SumRawResults(_, _)
SumRawResults(logs, n) == IF n = 0 THEN 0 ELSE SumRawResults(logs, n - 1) + logs[n].rawResults

RECURSIVE SumUniqueNew(_, _)
SumUniqueNew(logs, n) == IF n = 0 THEN 0 ELSE SumUniqueNew(logs, n - 1) + logs[n].uniqueNew

\* C35 (counter consistency): in the meta of a grid search that returned
\* after merging tiles, rawResults is the sum of the rawResults of the tile
\* logs, uniqueResults is at most rawResults, and the uniqueNew of the tile
\* logs add up to uniqueResults or more.
C35_CounterConsistency ==
  (grid.active /\ grid.tiles # <<>> /\ gridReturn # None
     /\ "error" \notin DOMAIN gridReturn[1].meta) =>
    LET meta == gridReturn[1].meta
        n == Len(meta.tileLogs)
    IN /\ meta.rawResults = SumRawResults(meta.tileLogs, n)
       /\ meta.uniqueResults <= meta.rawResults
       /\ SumUniqueNew(meta.tileLogs, n) >= meta.uniqueResults

\* a place came back from two tiles of the first batch and each counted it as
\* new; all nine tiles were merged: the uniqueNew add up to more than
\* uniqueResults, and a tile of a later batch brought places seen before
C35_Witness ==
  /\ grid.active
  /\ gridReturn # None
  /\ Len(gridReturn[1].meta.tileLogs) = 9
  /\ PlaceIds(tileRaw[1]) \cap PlaceIds(tileRaw[2]) # {}
  /\ SumUniqueNew(gridReturn[1].meta.tileLogs, 9) > gridReturn[1].meta.uniqueResults
  /\ \E n \in 5..9 : gridReturn[1].meta.tileLogs[n].uniqueNew
                        < gridReturn[1].meta.tileLogs[n].rawResults

\* C36 (single fallback): performStandardSearch is invoked at most once in a
\* request; the standard search that failed on its first page after every
\* geocoding attempt failed is the only one.
C36_SingleFallback ==
  /\ Len(stdCalls) <= 1
  /\ \A i \in 1..Len(stdCalls) :
       (stdCalls[i].caller = "gridNoGeo" /\ stdCalls[i].outcome = "throw") => Len(stdCalls) = i

\* C37 (response totals): in a 200 response with results, meta.detailsCalls
\* is the number of records and of detail lookups issued, and apiCallsUsed is
\* meta.totalApiCalls, the call count the search returned plus
\* meta.detailsCalls; for a 200 response without results no detail lookup was
\* issued.
C37_ResponseTotals ==
  (pc = "done" /\ resp.status = 200) =>
    IF resp.results # <<>>
      THEN /\ resp.meta.detailsCalls = Len(resp.results)
           /\ sent.details = resp.meta.detailsCalls
           /\ resp.apiCallsUsed = resp.meta.totalApiCalls
           /\ resp.meta.totalApiCalls = srv.apiCallsCount + resp.meta.detailsCalls
      ELSE sent.details = 0

\* a response with three records, the lookup of one of them answered with a
\* status that is not OK and that of another not answered at all
C37_Witness ==
  /\ pc = "done"
  /\ resp.status = 200
  /\ Len(resp.results) = 3
  /\ \E n \in 1..3 : srv.outcomes[n] = "throw"
  /\ \E n \in 1..3 : srv.outcomes[n] = "status"
  /\ resp.meta.detailsCalls = 3
  /\ resp.apiCallsUsed = srv.apiCallsCount + 3

\* C38 (termination): a request with a query, a credential and a number for
\* maxResults is answered in the end, whatever the upstream returns and
\* however long it goes on handing out next-page tokens.
C38_Termination == <>(pc = "done")

\* the fallback standard search of a grid request was handed a token with
\* each of its pages and returned after the fourth; the request was answered
C38_Witness ==
  /\ pc = "done"
  /\ resp.status = 200
  /\ Budget > 60
  /\ stdCalls # <<>>
  /\ stdCalls[Len(stdCalls)].requests = 4
  /\ Len(resp.results) = Budget

\* the number of places of raw whose identifier is not in seen
NewAgainst(raw, seen) == Cardinality({i \in 1..Len(raw) : raw[i].place_id \notin seen})

\* the number of tiles before the batch of the n-th tile
BatchStartOf(n) == BATCH_SIZE * ((n - 1) \div BATCH_SIZE)

\* C39 (diagnostic determinism): the rawResults and uniqueNew of a tile are
\* fixed by what the upstream returned for that tile and for the tiles of the
\* batches before its own: rawResults is the number of places returned for the
\* tile, uniqueNew the number of them that no tile of an earlier batch
\* returned; the order in which the tile searches of its batch answered and
\* resolved plays no part.
C39_DiagnosticDeterminism ==
  /\ grid.active =>
       \A n \in 1..Len(grid.tileLogs) :
         /\ grid.tileLogs[n].rawResults = Len(tileRaw[n])
         /\ grid.tileLogs[n].uniqueNew =
              NewAgainst(tileRaw[n], PlaceIds(RawUpTo(BatchStartOf(n))))
  /\ pc = "tiles" =>
       \A k \in DOMAIN batch :
         batch[k].status = "done" =>
           /\ batch[k].rawResultsCount = Len(tileRaw[grid.batchStart + k])
           /\ batch[k].uniqueNewCount =
                NewAgainst(tileRaw[grid.batchStart + k], PlaceIds(RawUpTo(grid.batchStart)))

\* the four tile searches of the second batch resolved in the reverse of grid
\* order, and one of them found places of the first batch next to new ones
C39_Witness ==
  /\ pc = "tiles"
  /\ grid.batchStart = BATCH_SIZE
  /\ completed = <<4, 3, 2, 1>>
  /\ \E k \in DOMAIN batch :
       /\ 0 < batch[k].uniqueNewCount
       /\ batch[k].uniqueNewCount < batch[k].rawResultsCount

====
